---- MODULE Spec2Model ----
(***************************************************************************)
(* CDR normalisation pipeline of jalad-shrimali/fitler-cdr.                *)
(*                                                                         *)
(* One run of a normaliser over one uploaded CSV is modelled as a state    *)
(* machine whose steps are the calls of csv.Reader.Read made by the        *)
(* normaliser, each followed by the straight-line code up to the next      *)
(* Read.  The operator variants that are modelled are                      *)
(*   A1  airtel/airtel_filter.go  normalizeAirtel                          *)
(*   A2  unnamed/part_002         processAirtel                            *)
(*   A3  unnamed/part_001         normalizeAirtel                          *)
(*   B1  bsnl/bsnl_filter.go      normBSNL                                 *)
(*   V1  vi/vi_filter.go          normVI                                   *)
(*   V2  unnamed/part_004         processVI                                *)
(*   J1  jio/jio_filter.go        normJio (lines 293-469)                  *)
(*   B2  unnamed/part_000         processBSNL (lines 874-1180)             *)
(* Strings are opaque values; the string functions of the code (norm,      *)
(* digits, strings.Trim, the banner regexps, strconv.ParseFloat) are       *)
(* tables over the closed vocabulary of the input lines.                   *)
(* Source record indexes are Go's 0-based indexes, with the code's         *)
(* sentinels (-1 or 0) kept as they are; canonical rows are sequences      *)
(* indexed from 1.                                                         *)
(***************************************************************************)
EXTENDS Integers, Sequences, FiniteSets, TLC

(* ------------------------------ bounds --------------------------------- *)
\* lines of the input stream in the structural scenario
MaxLines == 4
\* data rows after the fixed banner and header in the aggregation scenario
MaxDurRows == 5
\* data rows after the fixed banner and header in the span scenario
MaxAggRows == 3
\* data rows after the header in the correspondent scenario
MaxPartyRows == 2
\* data rows after the header in the two-column scenario
MaxDupRows == 2
\* data rows after the header in the date-format scenario
MaxFmtRows == 2
\* data rows after the header in the short-number scenario
MaxIdRows == 2
\* data rows after the header in the distinct-sets scenario
MaxSetRows == 2
\* data rows after the header in the look-up scenario
MaxEnrichRows == 2
\* lines after the header in the file-order scenario
MaxOrderRows == 3
\* data rows after the header in the failing-medium scenario
MaxLiveRows == 3

Variants == {"A1", "A2", "A3", "B1", "B2", "V1", "V2", "J1"}
AirtelFamily == {"A1", "A2", "A3"}
\* the variants that keep per-party aggregates
AggVariants == {"A1", "A2", "B1", "B2", "V1", "V2"}
\* the variants the aggregation scenario is uploaded to
DurVariants == {"A1", "B1"}

(* --------------------------- canonical layout -------------------------- *)
targetHeader26 ==
  << "CdrNo", "B Party", "Date", "Time", "Duration", "Call Type",
     "First Cell ID", "First Cell ID Address", "Last Cell ID", "Last Cell ID Address",
     "IMEI", "IMSI", "Roaming",
     "Main City(First CellID)", "Sub City (First CellID)", "Lat-Long-Azimuth (First CellID)",
     "Crime", "Circle", "Operator", "LRN",
     "CallForward", "B Party Provider", "B Party Circle", "B Party Operator",
     "Type", "IMEI Manufacturer" >>

targetHeaderA2 ==
  << "CdrNo", "B Party", "Date", "Time", "Duration", "Call Type",
     "First Cell ID", "First Cell ID Address", "Last Cell ID", "Last Cell ID Address",
     "IMEI", "IMSI", "Roaming",
     "Lat", "Long", "Azimuth",
     "Crime", "Circle(A-party)", "Operator(A-party)", "LRN",
     "CallForward", "B Party Provider", "B Party Circle",
     "Type", "IMEI Manufacturer", "TimeHH" >>

targetHeaderV2 ==
  << "CdrNo", "A Party",
     "B Party", "Date", "Time", "Duration", "Call Type",
     "First Cell ID", "First Cell ID Address", "Last Cell ID", "Last Cell ID Address",
     "IMEI", "IMSI", "Roaming",
     "Lat", "Long", "Azimuth",
     "Crime", "Circle(A-party)", "Operator(A-party)", "LRN",
     "CallForward", "B Party Provider", "B Party Circle",
     "Type", "IMEI Manufacturer", "TimeHH" >>

targetHeader(v) ==
  CASE v \in {"A2", "B2"} -> targetHeaderA2
    [] v = "V2" -> targetHeaderV2
    [] OTHER    -> targetHeader26

\* col[h] / dstIdx[h] / dstIx(h): position of a canonical field in the row
col(v, name) == CHOOSE i \in 1..Len(targetHeader(v)) : targetHeader(v)[i] = name

\* blank with fields that are not cleared
blankNotCleared(v) == [i \in 1..Len(targetHeader(v)) |-> "null"]
\* blank := make([]string, len(targetHeader))
blank(v) == [i \in 1..Len(targetHeader(v)) |-> ""]

SetF(row, v, name, val) == [row EXCEPT ![col(v, name)] = val]
GetF(row, v, name) == row[col(v, name)]

(* ------------------------------ strings -------------------------------- *)
CdrNum == "9876543210"
Party1 == "9000000001"
Party2 == "9000000002"
Crime  == "FIR-1"

\* norm: lower-case, trim, collapse white space
norm(s) ==
  CASE s = "Target No"  -> "target no"
    [] s = "B Party No" -> "b party no"
    [] s = "Date"       -> "date"
    [] s = "Time"       -> "time"
    [] s = "Dur(s)"     -> "dur(s)"
    [] s = "Call Type"  -> "call type"
    [] s = "First CGI"  -> "first cgi"
    [] s = "Last CGI"   -> "last cgi"
    [] s = "LRN"        -> "lrn"
    [] s = "B Party"    -> "b party"
    [] s = "Duration"   -> "duration"
    [] s = "Misc"       -> "misc"
    [] s = "CdrNo"      -> "cdrno"
    [] s = "IMEI"       -> "imei"
    [] s = "IMSI"       -> "imsi"
    [] s = "Roaming"    -> "roaming"
    [] s = "Crime"      -> "crime"
    [] s = "Type"       -> "type"
    [] s = "CallForward" -> "callforward"
    [] OTHER            -> s

\* nonDigit.ReplaceAllString(s, "")
digits(s) ==
  CASE s = "404-10-1"        -> "404101"
    [] s = "404-10-2"        -> "404102"
    [] s = "'9000000001'"    -> "9000000001"
    [] s = "9876543210.csv"  -> "9876543210"
    [] s = "cdr7.csv"        -> "7"
    [] s = "5678"            -> "5678"
    [] s \in { "77", "Mobile No '77'", "Search Value : 77", "MSISDN : - 77",
               "Input Value : 77" } -> "77"
    [] s = "2024-01-01"      -> "20240101"
    [] s = "2024-01-02"      -> "20240102"
    [] s = "2024-01-03"      -> "20240103"
    [] s = "08:00:00"        -> "080000"
    [] s = "09:00:00"        -> "090000"
    [] s = "10:00:00"        -> "100000"
    [] s \in { "Mobile No '9876543210'", "Search Value : 9876543210",
               "MSISDN : - 9876543210", "Input Value : 9876543210" } -> "9876543210"
    [] s \in { CdrNum, Party1, Party2, "1234", "404101", "404102", "10", "20", "5", "0" } -> s
    [] OTHER                 -> ""

\* strings.Trim(s, "'\" ")
Trim(s) ==
  CASE s = "'9000000001'" -> "9000000001"
    [] OTHER              -> s

\* strings.ReplaceAll(s, "-", "")
stripHyphen(s) ==
  CASE s = "404-10-1" -> "404101"
    [] s = "404-10-2" -> "404102"
    [] s = "2024-01-01" -> "20240101"
    [] s = "2024-01-02" -> "20240102"
    [] s = "2024-01-03" -> "20240103"
    [] OTHER          -> s

\* strconv.ParseFloat(s, 64): the error result and the value
ParseFloatOk(s) == s \in {"10", "20", "5", "0"}
ParseFloatVal(s) ==
  CASE s = "10" -> 10
    [] s = "20" -> 20
    [] s = "5"  -> 5
    [] OTHER    -> 0

\* the banner texts of the operators
BannerOf(v) ==
  CASE v \in AirtelFamily -> "Mobile No '9876543210'"
    [] v \in {"B1", "B2"} -> "Search Value : 9876543210"
    [] v \in {"V1", "V2"} -> "MSISDN : - 9876543210"
    [] OTHER              -> "Input Value : 9876543210"

(* -------------------------- the csv reader ----------------------------- *)
\* A line of the source file: its fields and whether its quoting is broken
\* (csv.ParseError other than ErrFieldCount).
Line(fs, bad) == [f |-> fs, perr |-> bad]

\* csv.Reader.Read with FieldsPerRecord = nf (0: take the count of the first
\* record, -1: no check).  The result is the error class; the record is the
\* line's fields in every case.
CsvErr(line, nf) ==
  IF line.perr THEN "parse"
  ELSE IF nf > 0 /\ Len(line.f) # nf THEN "fieldcount"
  ELSE "nil"

\* FieldsPerRecord after the read
CsvNext(line, nf) == IF nf = 0 THEN Len(line.f) ELSE nf

\* r := csv.NewReader(in) (; r.FieldsPerRecord = -1 in processVI)
InitFieldsPerRecord(v) == IF v = "V2" THEN -1 ELSE 0

\* rec[i] for a Go index i
At(rec, i) == rec[i + 1]
InRange(rec, i) == i >= 0 /\ i < Len(rec)

(* ----------------------- the input vocabulary -------------------------- *)
\* The export header of each operator, with every column the normaliser
\* looks for.
FullHeader(v) ==
  CASE v \in AirtelFamily ->
         << "Target No", "B Party No", "Date", "Time", "Dur(s)", "Call Type",
            "First CGI", "Last CGI", "LRN" >>
    [] v \in {"B1", "B2"} ->
         << "call_date", "call_initiation_time", "call_duration", "other_party_no",
            "call_type", "first_cell_id", "last_cell_id", "lrn_b_party_no",
            "search value" >>
    [] v \in {"V1", "V2"} ->
         << "call date", "call initiation time", "call duration", "b party number",
            "call_type", "first cell global id", "last cell global id",
            "lrn- b party number", "msisdn" >>
    [] OTHER ->
         << "call date", "call time", "dur(s)", "call type", "first cgi", "last cgi",
            "calling party telephone number", "called party telephone number",
            "lrn", "input value" >>

\* the names of the first/last cell-identifier, identifier and LRN columns
FirstCellName(v) ==
  CASE v \in AirtelFamily -> "First CGI" [] v \in {"B1", "B2"} -> "first_cell_id"
    [] v \in {"V1", "V2"} -> "first cell global id" [] OTHER -> "first cgi"
LastCellName(v) ==
  CASE v \in AirtelFamily -> "Last CGI" [] v \in {"B1", "B2"} -> "last_cell_id"
    [] v \in {"V1", "V2"} -> "last cell global id" [] OTHER -> "last cgi"
IdColName(v) ==
  CASE v \in AirtelFamily -> "none" [] v \in {"B1", "B2"} -> "search value"
    [] v \in {"V1", "V2"} -> "msisdn" [] OTHER -> "input value"
LrnColName(v) ==
  CASE v \in AirtelFamily -> "LRN" [] v \in {"B1", "B2"} -> "lrn_b_party_no"
    [] v \in {"V1", "V2"} -> "lrn- b party number" [] OTHER -> "lrn"

\* a header in which the column called name is some unrelated column
Without(h, name) == [i \in 1..Len(h) |-> IF h[i] = name THEN "Misc" ELSE h[i]]

Headers(v) ==
  { FullHeader(v),
    Without(FullHeader(v), FirstCellName(v)),
    Without(FullHeader(v), LastCellName(v)),
    Without(FullHeader(v), IdColName(v)) }
  \cup (IF v = "J1" THEN { Without(FullHeader(v), LrnColName(v)) } ELSE {})

\* What a data row holds under each column name.
Cell(name, t) ==
  CASE name = "Target No" -> CdrNum
    [] name \in {"B Party No", "other_party_no", "b party number"} -> t.bparty
    [] name = "call date" /\ "date2" \in DOMAIN t -> t.date2
    [] name \in {"Date", "call_date", "call date"} -> t.date
    [] name \in {"Time", "call_initiation_time", "call initiation time", "call time"} -> t.time
    [] name \in {"roam nw", "roaming circle", "roaming network"} -> t.roam
    [] name \in {"Dur(s)", "call_duration", "call duration", "dur(s)"} -> t.dur
    [] name \in {"Call Type", "call_type", "call type"} -> t.ctype
    [] name \in {"First CGI", "first_cell_id", "first cell global id", "first cgi"} -> t.first
    [] name \in {"Last CGI", "last_cell_id", "last cell global id", "last cgi"} -> t.last
    [] name \in {"LRN", "lrn_b_party_no", "lrn- b party number", "lrn"} -> t.lrn
    [] name \in {"search value", "msisdn", "input value"} -> t.id
    [] name = "calling party telephone number" ->
         IF "calling" \in DOMAIN t THEN t.calling ELSE CdrNum
    [] name = "called party telephone number" -> t.bparty
    [] name = "b party provider" -> t.prov
    [] name = "first bts location" -> t.addr
    [] OTHER -> "junk"

DataLine(h, t) == Line([i \in 1..Len(h) |-> Cell(h[i], t)], FALSE)

\* the data rows of the structural scenario
StructRows ==
  { [bparty |-> "'9000000001'", dur |-> "10", ctype |-> "IN",
     first |-> "404-10-1", last |-> "404-10-2", lrn |-> "1234", id |-> CdrNum,
     date |-> "2024-01-02", time |-> "10:00:00", roam |-> ""],
    [bparty |-> "", dur |-> "bad", ctype |-> "SMS_OUT",
     first |-> "", last |-> "", lrn |-> "", id |-> "n/a",
     date |-> "2024-01-02", time |-> "10:00:00", roam |-> ""] }

\* the data rows of the aggregation scenario: one party, every duration
DurRows ==
  { [bparty |-> Party1, dur |-> d, ctype |-> "IN",
     first |-> "404-10-1", last |-> "404-10-2", lrn |-> "1234", id |-> CdrNum,
     date |-> "2024-01-02", time |-> "10:00:00", roam |-> ""]
      : d \in {"10", "20", "bad", "5", "0"} }

\* the export header with the operator's roaming column after it
RoamColName(v) ==
  CASE v \in AirtelFamily -> "roam nw" [] v \in {"B1", "B2"} -> "roaming circle"
    [] OTHER -> "roaming network"
AggHeader(v) == Append(FullHeader(v), RoamColName(v))

\* the data rows of the span scenario: one cell seen on three days out of
\* order; the two cells spelled without separators, in a row with no party,
\* no date and a call type that is no direction; a cell and a routing
\* number that the tables do not hold, once with a date that is no date
AggRow(b, d, ct, f, la, l, dt, tm, rm) ==
  [bparty |-> b, dur |-> d, ctype |-> ct, first |-> f, last |-> la, lrn |-> l,
   id |-> CdrNum, date |-> dt, time |-> tm, roam |-> rm]
AggRows ==
  { AggRow(Party1, "10", "IN",  "404-10-1", "404-10-2", "1234", "2024-01-02", "10:00:00", "R1"),
    AggRow(Party1, "20", "OUT", "404-10-1", "404-10-2", "1234", "2024-01-01", "09:00:00", "R2"),
    AggRow(Party1, "5", "SMS_OUT", "404-10-1", "404-10-2", "1234", "2024-01-03", "08:00:00", "R1"),
    AggRow("",     "10", "junk", "404101",  "404102",   "1234", "",           "10:00:00", ""),
    AggRow(Party1, "10", "IN",  "junk",     "junk",     "5",    "2024-01-01", "09:00:00", "R1"),
    AggRow(Party1, "10", "IN",  "junk",     "junk",     "5",    "junk",       "10:00:00", "R2") }

\* the variants that choose the correspondent from the calling and the
\* called number, and the header of the correspondent scenario: that of
\* Jio, and an Airtel header with the two numbers in place of "B Party No"
PartyVariants == {"J1", "A2"}
PartyHeader(v) ==
  IF v = "J1" THEN FullHeader(v)
  ELSE << "Target No", "calling party telephone number", "called party telephone number",
          "Date", "Time", "Dur(s)", "Call Type", "First CGI", "Last CGI", "LRN" >>

\* the data rows of the correspondent scenario: every pair of the run's
\* number, two other numbers and the empty cell
PartyNumbers == {CdrNum, Party1, Party2, ""}
PartyRows ==
  { [bparty |-> b, calling |-> a, dur |-> "10", ctype |-> "IN",
     first |-> "404-10-1", last |-> "404-10-2", lrn |-> "1234", id |-> CdrNum,
     date |-> "2024-01-02", time |-> "10:00:00", roam |-> ""]
      : a \in PartyNumbers, b \in PartyNumbers }
PartyBannerLine(v) ==
  Line([i \in 1..Len(PartyHeader(v)) |-> IF i = 1 THEN BannerOf(v) ELSE ""], FALSE)

\* the variants whose copy loop ranges over a map from source column to
\* canonical slot and whose header tables name two columns for the Date,
\* and the header of the two-column scenario: the export header with a
\* second date column
DupVariants == {"A1", "A3", "V2"}
DupHeader(v) == Append(FullHeader(v), IF v = "V2" THEN "Date" ELSE "call date")

\* the data rows of the two-column scenario: every pair of two dates
DupRows ==
  { [bparty |-> Party1, dur |-> "10", ctype |-> "IN",
     first |-> "404-10-1", last |-> "404-10-2", lrn |-> "1234", id |-> CdrNum,
     date |-> d1, date2 |-> d2, time |-> "10:00:00", roam |-> ""]
      : d1 \in {"2024-01-01", "2024-01-02"}, d2 \in {"2024-01-01", "2024-01-02"} }
DupBannerLine(v) ==
  Line([i \in 1..Len(DupHeader(v)) |-> IF i = 1 THEN BannerOf(v) ELSE ""], FALSE)

\* the csv normalisers that keep a span, and the data rows of the
\* date-format scenario: an export that writes its dates as dd/mm/yyyy, with
\* calls on the last day of a year and on the first day of the next
FmtVariants == {"A1", "B1", "V1"}
FmtRows ==
  { [bparty |-> Party1, dur |-> "10", ctype |-> "IN",
     first |-> "404-10-1", last |-> "404-10-2", lrn |-> "1234", id |-> CdrNum,
     date |-> d, time |-> t, roam |-> ""]
      : d \in {"31/12/2023", "01/01/2024"}, t \in {"09:00:00", "10:00:00"} }

\* the banner texts with a number of two digits, and the data rows of the
\* short-number scenario: the identifier column holds a number of two
\* digits, or no number
ShortBannerOf(v) ==
  CASE v \in AirtelFamily -> "Mobile No '77'"
    [] v \in {"B1", "B2"} -> "Search Value : 77"
    [] v \in {"V1", "V2"} -> "MSISDN : - 77"
    [] OTHER              -> "Input Value : 77"
ShortBannerLine(v) ==
  Line([i \in 1..Len(FullHeader(v)) |-> IF i = 1 THEN ShortBannerOf(v) ELSE ""], FALSE)
IdRows ==
  { [bparty |-> Party1, dur |-> d, ctype |-> "IN",
     first |-> "404-10-1", last |-> "404-10-2", lrn |-> "1234", id |-> x,
     date |-> "2024-01-02", time |-> "10:00:00", roam |-> ""]
      : x \in {"77", "n/a"}, d \in {"10", "20"} }

\* the look-up scenario: the Airtel csv normalisers with a "b party
\* provider" column after the header and rows whose routing number the
\* table holds without an operator, holds with one, or does not hold; normVI
\* with a "first bts location" column and rows whose first cell the table
\* holds or does not hold
EnrichVariants == {"A1", "A3", "V1"}
EnrichHeader(v) ==
  Append(FullHeader(v), IF v = "V1" THEN "first bts location" ELSE "b party provider")
EnrichRow(l, p, f, a) ==
  [bparty |-> Party1, dur |-> "10", ctype |-> "IN",
   first |-> f, last |-> "404-10-2", lrn |-> l, id |-> CdrNum,
   date |-> "2024-01-02", time |-> "10:00:00", roam |-> "", prov |-> p, addr |-> a]
EnrichRows(v) ==
  IF v = "V1"
  THEN { EnrichRow("1234", "", f, a) : f \in {"404-10-1", "junk"}, a \in {"", "Tower Road"} }
  ELSE { EnrichRow(l, p, "404-10-1", "") : l \in {"1234", "5678", "5"}, p \in {"", "Airtel"} }
EnrichBannerLine(v) ==
  Line([i \in 1..Len(EnrichHeader(v)) |-> IF i = 1 THEN BannerOf(v) ELSE ""], FALSE)

\* the variants the file-order scenario is uploaded to, and its data rows:
\* two rows that differ in their duration
OrderVariants == {"A1", "B1", "V1", "J1"}
OrderRows ==
  { [bparty |-> Party1, dur |-> d, ctype |-> "IN",
     first |-> "404-10-1", last |-> "404-10-2", lrn |-> "1234", id |-> CdrNum,
     date |-> "2024-01-02", time |-> "10:00:00", roam |-> ""]
      : d \in {"10", "20"} }

\* the variants the failing-medium scenario is uploaded to
LiveVariants == {"A1", "A3", "B1"}

\* the variants that keep distinct days and cells per party, and the data
\* rows of the distinct-sets scenario: each cell identifier present or absent
SetVariants == {"A1", "B1", "V1", "B2", "V2"}
SetRows ==
  { [bparty |-> Party1, dur |-> "10", ctype |-> "IN",
     first |-> f, last |-> l, lrn |-> "1234", id |-> CdrNum,
     date |-> d, time |-> "10:00:00", roam |-> ""]
      : f \in {"", "404-10-1"}, l \in {"", "404-10-2"},
        d \in {"2024-01-01", "2024-01-02"} }

\* a banner line as the operators export it: the banner text in the first
\* cell of a row as wide as the table
BannerLine(v) ==
  Line([i \in 1..Len(FullHeader(v)) |-> IF i = 1 THEN BannerOf(v) ELSE ""], FALSE)
AggBannerLine(v) ==
  Line([i \in 1..Len(AggHeader(v)) |-> IF i = 1 THEN BannerOf(v) ELSE ""], FALSE)

\* a one-cell text line, and a full-width line whose quoting is broken
JunkLine == Line(<< "junk" >>, FALSE)
BrokenLine(v) == Line([i \in 1..Len(FullHeader(v)) |-> "junk"], TRUE)

\* the footer the Airtel exports end with
FooterText == "This is system generated report"
FooterLine(v) ==
  Line([i \in 1..Len(FullHeader(v)) |-> IF i = 1 THEN FooterText ELSE ""], FALSE)

\* "struct": any preamble, header and rows; "dur": banner, full header and
\* the rows of one party; "twice": banner, full header and well-formed rows;
\* "agg": banner, header with the roaming column and the span rows.
\* The lines the stream may deliver next: preamble and header lines until
\* the header has been found (h is the header, << >> before), data lines
\* after it.
Lines(v, sc, h) ==
  IF sc = "dur" THEN { DataLine(FullHeader(v), t) : t \in DurRows }
  ELSE IF sc = "agg" THEN { DataLine(AggHeader(v), t) : t \in AggRows }
  ELSE IF sc = "party" THEN { DataLine(PartyHeader(v), t) : t \in PartyRows }
  ELSE IF sc = "dup" THEN { DataLine(DupHeader(v), t) : t \in DupRows }
  ELSE IF sc = "fmt" THEN { DataLine(FullHeader(v), t) : t \in FmtRows }
  ELSE IF sc = "id" THEN { DataLine(FullHeader(v), t) : t \in IdRows }
  ELSE IF sc = "sets" THEN { DataLine(FullHeader(v), t) : t \in SetRows }
  ELSE IF sc = "enrich" THEN { DataLine(EnrichHeader(v), t) : t \in EnrichRows(v) }
  ELSE IF sc = "order" THEN { DataLine(FullHeader(v), t) : t \in OrderRows }
                            \cup { JunkLine, BrokenLine(v) }
  ELSE IF sc \in {"twice", "live"} THEN { DataLine(FullHeader(v), t) : t \in StructRows }
  ELSE IF h = << >>
  THEN { BannerLine(v), JunkLine, BrokenLine(v) }
       \cup { Line(hd, FALSE) : hd \in Headers(v) }
  ELSE { DataLine(h, t) : t \in StructRows }
       \cup { JunkLine, BrokenLine(v) }
       \cup (IF v \in {"A1", "A3"} THEN { FooterLine(v) } ELSE {})

SrcNames == {"9876543210.csv", "report.csv"}

(* ------------------------- header and identifier ----------------------- *)
\* colIdx(header, key): first column whose normalised name is the key, or -1
colIdx(h, key) ==
  IF \E i \in 1..Len(h) : norm(h[i]) = norm(key)
  THEN (CHOOSE i \in 1..Len(h) :
          /\ norm(h[i]) = norm(key)
          /\ \A j \in 1..(i - 1) : norm(h[j]) # norm(key)) - 1
  ELSE -1

\* colIdxAny(header, keys...): the first key that names a column
colIdxAny(h, keys) ==
  LET W == { k \in 1..Len(keys) : colIdx(h, keys[k]) # -1 }
  IN IF W = {} THEN -1
     ELSE colIdx(h, keys[CHOOSE k \in W : \A j \in W : k <= j])

\* the banner regexps: airtelCdrRE, searchValRE, msisdnRE, jioCdrRE applied
\* to one cell
bannerRE(v, s) ==
  IF s = BannerOf(v) THEN CdrNum
  ELSE IF v \in AirtelFamily /\ s = "Mobile No '77'" THEN "77"
  ELSE ""

\* regexp \d{8,15} FindString
find8to15(s) ==
  CASE s \in {CdrNum, Party1, Party2} -> s
    [] s = "'9000000001'" -> "9000000001"
    [] s \in { "Mobile No '9876543210'", "Search Value : 9876543210",
               "MSISDN : - 9876543210", "Input Value : 9876543210",
               "9876543210.csv" } -> CdrNum
    [] OTHER -> ""

\* extractCdrNumber(rec[0]) in A1 and A3; the regexp over
\* strings.Join(rec, " ") in the others
extractCdr(v, rec) ==
  IF rec = << >> THEN ""
  ELSE IF v \in {"A1", "A3"} THEN bannerRE(v, rec[1])
  ELSE IF \E i \in 1..Len(rec) : bannerRE(v, rec[i]) # ""
  THEN bannerRE(v, rec[CHOOSE i \in 1..Len(rec) : bannerRE(v, rec[i]) # ""])
  ELSE ""

\* the last index i of rec whose normalised cell is in names, or old
LastIdx(rec, names, old) ==
  IF \E i \in 1..Len(rec) : norm(rec[i]) \in names
  THEN (CHOOSE i \in 1..Len(rec) :
          /\ norm(rec[i]) \in names
          /\ \A j \in (i + 1)..Len(rec) : norm(rec[j]) \notin names) - 1
  ELSE old

\* strings.Contains(strings.ToLower(h), "input value")
ContainsInputValue(s) ==
  s \in {"input value", "Input Value : 9876543210", "Input Value : 77"}

LastInputIdx(rec, old) ==
  IF \E i \in 1..Len(rec) : ContainsInputValue(rec[i])
  THEN (CHOOSE i \in 1..Len(rec) :
          /\ ContainsInputValue(rec[i])
          /\ \A j \in (i + 1)..Len(rec) : ~ContainsInputValue(rec[j])) - 1
  ELSE old

\* the column positions the header loop keeps: normJio updates them on every
\* line it scans; the Airtel variants set first/last from the header row
InitIdx(v) ==
  CASE v \in {"A2", "A3"} -> [first |-> -1, last |-> -1, calling |-> 0, called |-> 0, input |-> 0]
    [] OTHER -> [first |-> 0, last |-> 0, calling |-> 0, called |-> 0, input |-> 0]

ScanIdx(v, rec, ix) ==
  IF v = "J1"
  THEN [first   |-> LastIdx(rec, {"first cgi", "first cell id"}, ix.first),
        last    |-> LastIdx(rec, {"last cgi", "last cell id"}, ix.last),
        calling |-> LastIdx(rec, {"calling party telephone number"}, ix.calling),
        called  |-> LastIdx(rec, {"called party telephone number"}, ix.called),
        input   |-> LastInputIdx(rec, ix.input)]
  ELSE ix

HeaderIdx(v, h, ix) ==
  IF v \in AirtelFamily
  THEN [ix EXCEPT !.first = LastIdx(h, {"first cgi"}, ix.first),
                  !.last  = LastIdx(h, {"last cgi"}, ix.last)]
  ELSE ix

\* the header signature of each variant (ix: the positions after ScanIdx);
\* strings.Contains(rec[0], "Target No") in the Airtel variants
IsHeader(v, rec, ix) ==
  CASE v \in AirtelFamily -> Len(rec) > 0 /\ rec[1] = "Target No"
    [] v \in {"B1", "B2"} -> colIdx(rec, "call_date") # -1
    [] v = "V1" -> colIdx(rec, "call date") # -1
    [] v = "V2" -> \E i \in 1..Len(rec) : norm(rec[i]) \in {"call date", "date"}
    [] OTHER    -> ix.first # 0 /\ ix.last # 0

\* the error of reaching the end of the stream in the header loop
NoHeaderMsg(v) ==
  CASE v \in {"A1", "A2", "B1", "B2", "J1"} -> "no header"
    [] v \in {"A3", "V1"} -> "no header found"
    [] OTHER -> "no header row"

(* --------------------------- reference tables -------------------------- *)
\* the rows of the cell-tower table: one identifier stored without and one
\* stored with separators
CellRows ==
  { [id |-> "404101", addr |-> "MG Road", sub |-> "Sub1", main |-> "Main1",
     lla |-> "12.9,77.6,120", lat |-> "12.9", lon |-> "77.6", az |-> "120"],
    [id |-> "404-10-2", addr |-> "Ring Road", sub |-> "Sub2", main |-> "Main2",
     lla |-> "28.6,77.2,240", lat |-> "28.6", lon |-> "77.2", az |-> "240"] }

NoCell == [id |-> "", addr |-> "", sub |-> "", main |-> "", lla |-> "",
           lat |-> "", lon |-> "", az |-> ""]

\* the keys under which loadCells stores a row: the trimmed identifier, and
\* its digits-only form too in the BSNL, VI and Jio loaders
CellKeys(v, r) == IF v \in {"A1", "A3"} THEN {r.id} ELSE {r.id, digits(r.id)}

CellByKey(v, k) ==
  IF \E r \in CellRows : k \in CellKeys(v, r)
  THEN CHOOSE r \in CellRows : k \in CellKeys(v, r)
  ELSE NoCell

\* a look-up that returns a row of the table for every identifier
findCellAnyRow(v, id) == CHOOSE r \in CellRows : r.id = "404101"

\* a look-up that tries the identifier as it is spelled and nothing else
findCellRawOnly(v, id) == CellByKey(v, id)

\* cellDB[id] (A1, A3); cellLookup / findCell: raw then digits (B1, V1);
\* findCell of jio (raw, then prefixes of 11 and more characters, "0"+id, id
\* without its leading zero: none of these forms is in the vocabulary);
\* lookupCell: cellid = id OR REPLACE(cellid, '-', '') = id (A2, V2)
findCell(v, id) ==
  CASE v \in {"A1", "A3", "J1"} -> CellByKey(v, id)
    [] v \in {"B1", "V1"} ->
         IF CellByKey(v, id) # NoCell THEN CellByKey(v, id) ELSE CellByKey(v, digits(id))
    [] OTHER ->
         IF \E r \in CellRows : r.id = id \/ stripHyphen(r.id) = id
         THEN CHOOSE r \in CellRows : r.id = id \/ stripHyphen(r.id) = id
         ELSE NoCell

\* the routing-number table (LRN.csv: lrn no, tsp, circle)
LrnRows == { [lrn |-> "1234", tsp |-> "Jio", circle |-> "Delhi", op |-> ""],
             [lrn |-> "5678", tsp |-> "Vi", circle |-> "Mumbai", op |-> "Vodafone Idea"] }
NoLrn == [Provider |-> "", Circle |-> "", Operator |-> "", ok |-> FALSE]

\* lrnDB[key]; Operator is the "operator" column in the Airtel loaders
\* (empty when the table's row has none) and the tsp in the others
lrnDB(v, key) ==
  IF \E r \in LrnRows : r.lrn = key
  THEN LET r == CHOOSE r \in LrnRows : r.lrn = key
       IN [Provider |-> r.tsp, Circle |-> r.circle,
           Operator |-> IF v \in {"A1", "A3"} THEN r.op ELSE r.tsp, ok |-> TRUE]
  ELSE NoLrn

(* ---------------------------- row normaliser --------------------------- *)
\* strings.ToUpper
ToUpper(s) == CASE s = "in" -> "IN" [] s = "junk" -> "JUNK" [] s = "bad" -> "BAD" [] OTHER -> s

\* t[:2] (taken when len(t) >= 2: every non-empty time of the vocabulary)
Prefix2(t) ==
  CASE t = "10:00:00" -> "10" [] t = "09:00:00" -> "09" [] t = "08:00:00" -> "08"
    [] t = "junk" -> "ju" [] OTHER -> t

\* last10 of processAirtel: the last ten digits, "" when there are fewer
last10A2(s) == IF digits(s) \in {CdrNum, Party1, Party2} THEN digits(s) ELSE ""
\* last10 of processVI and normalizeMSISDN of jio: at most the last ten digits
last10(s) == digits(s)

\* a run of cp(rec, src, dst, row) calls, pairs = << <<src, dst>>, ... >>:
\* a slot holds what the last cp that reached it wrote
cpAll(v, rec, pairs, row) ==
  [i \in 1..Len(row) |->
     LET W == { k \in 1..Len(pairs) :
                  /\ pairs[k][2] = targetHeader(v)[i]
                  /\ pairs[k][1] >= 0 /\ pairs[k][1] < Len(rec) }
     IN IF W = {} THEN row[i]
        ELSE Trim(At(rec, pairs[CHOOSE k \in W : \A j \in W : j <= k][1]))]

\* pick(rec, idx)
pick(rec, i) == IF i = -1 \/ i >= Len(rec) THEN "" ELSE At(rec, i)

\* the synonyms tables of the two Airtel csv normalisers
synonyms(v, n) ==
  CASE n \in {"b party no", "called party telephone number"} -> "B Party"
    [] n \in {"call date", "date"} -> "Date"
    [] n \in {"call time", "time"} -> "Time"
    [] n \in {"dur(s)", "call duration"} -> "Duration"
    [] n = "call type" /\ v = "A3" -> "Call Type"
    [] n = "imei" -> "IMEI"
    [] n = "imsi" -> "IMSI"
    [] n = "roam nw" -> "Roaming"
    [] n \in {"roaming circle name", "circle"} -> "Circle"
    [] n = "operator" -> "Operator"
    [] n \in {"lrn", "lrn no", "lrn number", "lrn called no"} -> "LRN"
    [] n \in {"call fow no", "call forwarding"} -> "CallForward"
    [] n \in {"b party provider", "lrn tsp-lsa"} -> "B Party Provider"
    [] n = "b party circle" -> "B Party Circle"
    [] n = "b party operator" -> "B Party Operator"
    [] n = "service type" -> "Type"
    [] n = "crime" -> "Crime"
    [] OTHER -> ""

\* alias2canon (Headers.csv) and callAlias (Call_types.csv) of the workbook
\* variants
alias2canon(n) == CASE n = "b party no" -> "B Party" [] OTHER -> ""
callAlias == {"call type"}

\* looksLikeBPartyHeader
looksLikeBPartyHeader(h) == norm(h) \in {"b party no", "b party number"}

\* the canonical field whose normalised name is n, "" if none
IdentityField(v, n) ==
  IF \E i \in 1..Len(targetHeader(v)) : norm(targetHeader(v)[i]) = n
  THEN targetHeader(v)[CHOOSE i \in 1..Len(targetHeader(v)) :
                         /\ norm(targetHeader(v)[i]) = n
                         /\ \A j \in 1..(i - 1) : norm(targetHeader(v)[j]) # n]
  ELSE ""

\* dstIdx[name] of processAirtel: the zero value (CdrNo's slot) for a name
\* that is no canonical field
dstIdx(v, name) == IF (\E i \in 1..Len(targetHeader(v)) : targetHeader(v)[i] = name) THEN col(v, name) ELSE 1

\* The copy loops of the Airtel variants and of processVI range over a Go
\* map from source column to canonical slot: the iteration order is not
\* fixed, so when several source columns feed one slot any of them may be
\* the last writer.  MapRows is the set of rows the loop can leave:
\* cm maps Go source indexes to slots.
SrcsOf(cm, rec, d) == { i \in DOMAIN cm : cm[i] = d /\ i < Len(rec) }
SlotsOf(cm, rec) == { cm[i] : i \in { j \in DOMAIN cm : j < Len(rec) } }

\* the per-slot transform of each copy loop
callTypeCanon(val) ==
  CASE ToUpper(val) \in {"IN", "A_IN"}   -> "CALL_IN"
    [] ToUpper(val) \in {"OUT", "A_OUT"} -> "CALL_OUT"
    [] OTHER -> val

typeCanon(val) ==
  CASE val \in {"pre", "PRE", "Pre"}    -> "Prepaid"
    [] val \in {"post", "POST", "Post"} -> "Postpaid"
    [] OTHER -> val

xform(v, d, val, cdr) ==
  CASE v \in {"A1", "A3"} /\ targetHeader(v)[d] = "Call Type" -> callTypeCanon(val)
    [] v = "A3" /\ targetHeader(v)[d] = "Type" -> typeCanon(val)
    [] v \in {"A2", "B2"} /\ targetHeader(v)[d] = "B Party" ->
         IF last10A2(val) # "" /\ last10A2(val) # cdr THEN last10A2(val) ELSE val
    [] OTHER -> val

RECURSIVE MapRows(_, _, _, _, _, _)
MapRows(v, rec, cm, ds, rows, cdr) ==
  IF ds = {} THEN rows
  ELSE UNION { MapRows(v, rec, cm, ds \ {d},
                       { [r EXCEPT ![d] = xform(v, d, Trim(At(rec, i)), cdr)] :
                           r \in rows, i \in SrcsOf(cm, rec, d) },
                       cdr)
                 : d \in { CHOOSE x \in ds : TRUE } }

\* the copy loop over the map cm, from the row start
copyLoop(v, rec, cm, start, cdr) ==
  UNION { MapRows(v, rec, m, ds, { start }, cdr)
            : m \in { cm }, ds \in { SlotsOf(cm, rec) } }

\* copyMap / srcToDst of normalizeAirtel (A1, A3)
copyMapA(v, h, ix) ==
  [ i \in { j \in 0..(Len(h) - 1) : synonyms(v, norm(At(h, j))) # "" }
          \cup {ix.first, ix.last} |->
      IF i = ix.last THEN col(v, "Last Cell ID")
      ELSE IF i = ix.first THEN col(v, "First Cell ID")
      ELSE col(v, synonyms(v, norm(At(h, i)))) ]

\* bpartyCols of processAirtel
IsBPartyCol(h, i) ==
  alias2canon(norm(At(h, i))) = "B Party" \/ looksLikeBPartyHeader(At(h, i))

\* the slot the header loop of processAirtel gives source column i, 0 if none
slotA2(h, i) ==
  IF IsBPartyCol(h, i) THEN col("A2", "B Party")
  ELSE IF alias2canon(norm(At(h, i))) # "" THEN dstIdx("A2", alias2canon(norm(At(h, i))))
  ELSE IF norm(At(h, i)) \in callAlias THEN col("A2", "Call Type")
  ELSE IF IdentityField("A2", norm(At(h, i))) # ""
  THEN col("A2", IdentityField("A2", norm(At(h, i))))
  ELSE 0

\* src2dst of processAirtel
src2dstA2(h, ix) ==
  [ i \in { j \in 0..(Len(h) - 1) : slotA2(h, j) # 0 }
          \cup { j \in {ix.first, ix.last} : j >= 0 } |->
      IF i = ix.last THEN col("A2", "Last Cell ID")
      ELSE IF i = ix.first THEN col("A2", "First Cell ID")
      ELSE slotA2(h, i) ]

\* strings.Contains(n, "lrn")
ContainsLrn(n) == n \in {"lrn", "lrn- b party number", "lrn_b_party_no", "lrn no", "lrn called no"}

\* the addMap calls of processVI, in order
addMapsV2 ==
  << <<"call date", "Date">>, <<"call initiation time", "Time">>, <<"time", "Time">>,
     <<"start time", "Time">>, <<"call time", "Time">>, <<"call duration", "Duration">>,
     <<"b party number", "B Party">>, <<"first cell global id", "First Cell ID">>,
     <<"first bts location", "First Cell ID Address">>,
     <<"last cell global id", "Last Cell ID">>,
     <<"last bts location", "Last Cell ID Address">>,
     <<"roaming network", "Roaming">>, <<"roaming network/circle", "Roaming">>,
     <<"roaming circle", "Roaming">>, <<"service type", "Type">>,
     <<"call forwarding", "CallForward">> >>

\* the slot the header loop of processVI gives source column i, 0 if none
baseSlotV2(h, i) ==
  IF alias2canon(norm(At(h, i))) # ""
  THEN (IF alias2canon(norm(At(h, i))) \in { targetHeader("V2")[k] : k \in 1..Len(targetHeader("V2")) }
        THEN col("V2", alias2canon(norm(At(h, i)))) ELSE 0)
  ELSE IF ContainsLrn(norm(At(h, i))) THEN col("V2", "LRN")
  ELSE IF norm(At(h, i)) \in callAlias THEN col("V2", "Call Type")
  ELSE IF IdentityField("V2", norm(At(h, i))) # ""
  THEN col("V2", IdentityField("V2", norm(At(h, i))))
  ELSE 0

\* the slot the addMap calls leave for source column i: that of the last
\* call whose name is column i, cur if there is none
addMapSlot(h, i, cur) ==
  LET W == { k \in 1..Len(addMapsV2) : colIdx(h, addMapsV2[k][1]) = i }
  IN IF W = {} THEN cur
     ELSE col("V2", addMapsV2[CHOOSE k \in W : \A j \in W : j <= k][2])

\* src2dst of processVI
src2dstV2(h) ==
  [ i \in { j \in 0..(Len(h) - 1) : addMapSlot(h, j, baseSlotV2(h, j)) # 0 } |->
      addMapSlot(h, i, baseSlotV2(h, i)) ]

\* enrichCell / enrichWithCell / enrich: a hit on the first identifier fills
\* four fields, a hit on the last one the address only
enrichCell(v, row, id, first) ==
  IF findCell(v, id) = NoCell THEN row
  ELSE IF first
  THEN [row EXCEPT ![col(v, "First Cell ID Address")] = findCell(v, id).addr,
                   ![col(v, "Sub City (First CellID)")] = findCell(v, id).sub,
                   ![col(v, "Main City(First CellID)")] = findCell(v, id).main,
                   ![col(v, "Lat-Long-Azimuth (First CellID)")] = findCell(v, id).lla]
  ELSE [row EXCEPT ![col(v, "Last Cell ID Address")] = findCell(v, id).addr]

\* the key of enrichLRN (A1: digits(LRN)) and enrichWithLRN (A3: TrimSpace(LRN))
lrnKeyA(v, row) == IF v = "A1" THEN digits(GetF(row, v, "LRN")) ELSE GetF(row, v, "LRN")

\* a routing look-up that writes the table's provider over the row's
enrichLRNOverwrite(v, row) ==
  IF lrnKeyA(v, row) = "" \/ ~lrnDB(v, lrnKeyA(v, row)).ok THEN row
  ELSE [row EXCEPT
          ![col(v, "B Party Provider")] = lrnDB(v, lrnKeyA(v, row)).Provider,
          ![col(v, "B Party Circle")] = lrnDB(v, lrnKeyA(v, row)).Circle,
          ![col(v, "B Party Operator")] =
             IF lrnDB(v, lrnKeyA(v, row)).Operator # ""
             THEN lrnDB(v, lrnKeyA(v, row)).Operator
             ELSE lrnDB(v, lrnKeyA(v, row)).Provider]

\* enrichLRN / enrichWithLRN
enrichLRN(v, row) ==
  IF lrnKeyA(v, row) = "" \/ ~lrnDB(v, lrnKeyA(v, row)).ok THEN row
  ELSE [row EXCEPT
          ![col(v, "B Party Provider")] =
             IF @ = "" THEN lrnDB(v, lrnKeyA(v, row)).Provider ELSE @,
          ![col(v, "B Party Circle")] = lrnDB(v, lrnKeyA(v, row)).Circle,
          ![col(v, "B Party Operator")] =
             IF lrnDB(v, lrnKeyA(v, row)).Operator # ""
             THEN lrnDB(v, lrnKeyA(v, row)).Operator
             ELSE lrnDB(v, lrnKeyA(v, row)).Provider]

\* the LRN block of writeRow in normBSNL, normVI and normJio: l is the key
lrnFill(v, row, l) ==
  IF lrnDB(v, l).ok
  THEN [row EXCEPT ![col(v, "B Party Provider")] = lrnDB(v, l).Provider,
                   ![col(v, "B Party Circle")] = lrnDB(v, l).Circle,
                   ![col(v, "B Party Operator")] = lrnDB(v, l).Operator]
  ELSE row

\* ---- normalizeAirtel (A1: airtel_filter.go 233-254, A3: part_001 305-338) ----
cleanCGI(v, x) == IF v = "A3" THEN stripHyphen(x) ELSE digits(x)

\* row[col["Crime"]] = crime and the two cleaned identifiers, when not empty
crimeAndCGI(v, rec, ix, S) ==
  { [r EXCEPT ![col(v, "Crime")] = Crime,
              ![col(v, "First Cell ID")] =
                 IF cleanCGI(v, At(rec, ix.first)) # ""
                 THEN cleanCGI(v, At(rec, ix.first)) ELSE @,
              ![col(v, "Last Cell ID")] =
                 IF cleanCGI(v, At(rec, ix.last)) # ""
                 THEN cleanCGI(v, At(rec, ix.last)) ELSE @] : r \in S }

\* the copy loop, Crime and the identifiers, then the two cell look-ups and
\* the LRN look-up
RowsA(v, rec, h, ix, cdr) ==
  { enrichLRN(v, r3)
      : r3 \in { enrichCell(v, r2, GetF(r2, v, "Last Cell ID"), FALSE)
                   : r2 \in { enrichCell(v, r1, GetF(r1, v, "First Cell ID"), TRUE)
                                : r1 \in crimeAndCGI(v, rec, ix,
                                     copyLoop(v, rec, copyMapA(v, h, ix),
                                              SetF(blank(v), v, "CdrNo", cdr), cdr)) } } }

\* ---- normBSNL writeRow (bsnl_filter.go 192-216) ----
\* the column indexes normBSNL takes from the header (155-168), paired with
\* the fields that cp writes them to (196-201)
pairsB1(h) ==
  << <<colIdx(h, "call_date"), "Date">>,
     <<colIdxAny(h, <<"call_initiation_time", "cit">>), "Time">>,
     <<colIdx(h, "call_duration"), "Duration">>,
     <<colIdx(h, "other_party_no"), "B Party">>,
     <<colIdx(h, "call_type"), "Call Type">>,
     <<colIdx(h, "first_cell_id"), "First Cell ID">>,
     <<colIdx(h, "last_cell_id"), "Last Cell ID">>,
     <<colIdx(h, "last_cell_desc"), "Last Cell ID Address">>,
     <<colIdx(h, "imei"), "IMEI">>,
     <<colIdx(h, "imsi"), "IMSI">>,
     <<colIdxAny(h, <<"roaming circle", "roaming_circle">>), "Roaming">>,
     <<colIdx(h, "lrn_b_party_no"), "LRN">>,
     <<colIdx(h, "service_type"), "Type">> >>

\* CdrNo, Crime and the cp calls
copyB1(rec, h, cdr) ==
  { cpAll("B1", rec, p, r0)
      : p \in { pairsB1(h) },
        r0 \in { SetF(SetF(blank("B1"), "B1", "CdrNo", cdr), "B1", "Crime", Crime) } }

\* the cell look-up on pick(rec, idxFid)
cellB1(id, S) ==
  { IF id # "" /\ findCell("B1", id) # NoCell
    THEN [r EXCEPT ![col("B1", "First Cell ID Address")] = findCell("B1", id).addr,
                   ![col("B1", "Main City(First CellID)")] = findCell("B1", id).main,
                   ![col("B1", "Sub City (First CellID)")] = findCell("B1", id).sub,
                   ![col("B1", "Lat-Long-Azimuth (First CellID)")] = findCell("B1", id).lla]
    ELSE r : r \in S }

\* the LRN look-up on digits(row[col["LRN"]])
lrnB1(S) ==
  { IF digits(GetF(r, "B1", "LRN")) # ""
    THEN lrnFill("B1", r, digits(GetF(r, "B1", "LRN"))) ELSE r : r \in S }

RowsB1(rec, h, cdr) ==
  lrnB1(cellB1(pick(rec, colIdx(h, "first_cell_id")), copyB1(rec, h, cdr)))

\* ---- normVI writeRow (vi_filter.go 306-348) ----
\* the column indexes normVI takes from the header (250-263), paired with
\* the fields that cp writes them to
pairsV1(h) ==
  << <<colIdx(h, "call date"), "Date">>,
     <<colIdx(h, "call initiation time"), "Time">>,
     <<colIdxAny(h, <<"call duration", "duration">>), "Duration">>,
     <<colIdxAny(h, <<"b party number", "b party no">>), "B Party">>,
     <<colIdx(h, "call_type"), "Call Type">>,
     <<colIdxAny(h, <<"first cell global id">>), "First Cell ID">>,
     <<colIdxAny(h, <<"first bts location">>), "First Cell ID Address">>,
     <<colIdxAny(h, <<"last cell global id">>), "Last Cell ID">>,
     <<colIdxAny(h, <<"last bts location">>), "Last Cell ID Address">>,
     <<colIdx(h, "imei"), "IMEI">>,
     <<colIdx(h, "imsi"), "IMSI">>,
     <<colIdxAny(h, <<"roaming network/circle", "roaming network">>), "Roaming">>,
     <<colIdxAny(h, <<"lrn- b party number", "lrn b party number">>), "LRN">>,
     <<colIdx(h, "service type"), "Type">> >>

copyV1(rec, h, cdr) ==
  { cpAll("V1", rec, p, r0)
      : p \in { pairsV1(h) },
        r0 \in { SetF(SetF(blank("V1"), "V1", "CdrNo", cdr), "V1", "Crime", Crime) } }

\* the cell look-up on pick(rec, idxFirstID): the address only when blank
cellV1(id, S) ==
  { IF id # "" /\ findCell("V1", id) # NoCell
    THEN [r EXCEPT ![col("V1", "Main City(First CellID)")] = findCell("V1", id).main,
                   ![col("V1", "Sub City (First CellID)")] = findCell("V1", id).sub,
                   ![col("V1", "Lat-Long-Azimuth (First CellID)")] = findCell("V1", id).lla,
                   ![col("V1", "First Cell ID Address")] =
                      IF @ = "" THEN findCell("V1", id).addr ELSE @]
    ELSE r : r \in S }

\* the LRN look-up on digits(pick(rec, idxLRN))
lrnV1(l, S) == { IF l # "" THEN lrnFill("V1", r, l) ELSE r : r \in S }

RowsV1(rec, h, cdr) ==
  lrnV1(digits(pick(rec, colIdxAny(h, <<"lrn- b party number", "lrn b party number">>))),
        cellV1(pick(rec, colIdxAny(h, <<"first cell global id">>)), copyV1(rec, h, cdr)))

\* ---- normJio write (jio_filter.go 373-452) ----
\* the unguarded rec[...] reads of write: a column that colIdx does not find
\* gives rec[-1], a short record gives an index past its end; both panic
PanicsJ1(rec, h, ix) ==
  \/ ~InRange(rec, colIdxAny(h, <<"lrn called no", "lrn no", "lrn">>))
  \/ ~InRange(rec, colIdx(h, "call type"))
  \/ ~InRange(rec, ix.first) \/ ~InRange(rec, ix.last)
  \/ ~InRange(rec, ix.calling) \/ ~InRange(rec, ix.called)

pairsJ1(h) ==
  << <<colIdx(h, "call date"), "Date">>,
     <<colIdx(h, "call time"), "Time">>,
     <<colIdxAny(h, <<"dur(s)", "duration(sec)", "call duration">>), "Duration">>,
     <<colIdx(h, "imei"), "IMEI">>,
     <<colIdx(h, "imsi"), "IMSI">>,
     <<colIdxAny(h, <<"lrn called no", "lrn no", "lrn">>), "LRN">>,
     <<colIdxAny(h, <<"call forward", "call forwarding", "call fwd no", "call fow no">>),
       "CallForward">> >>

copyJ1(rec, h, cdr) ==
  { cpAll("J1", rec, p, r0)
      : p \in { pairsJ1(h) }, r0 \in { SetF(blank("J1"), "J1", "CdrNo", cdr) } }

\* the call / sms type switch on ct
typeJ1(ct, S) ==
  { CASE ct \in {"A_IN", "CALL_IN"} ->
           [r EXCEPT ![col("J1", "Call Type")] = "CALL_IN", ![col("J1", "Type")] = "Phone"]
      [] ct \in {"A_OUT", "CALL_OUT"} ->
           [r EXCEPT ![col("J1", "Call Type")] = "CALL_OUT", ![col("J1", "Type")] = "Phone"]
      [] ct \in {"A2P_SMSIN", "P2P_SMSIN"} ->
           [r EXCEPT ![col("J1", "Call Type")] = ct, ![col("J1", "Type")] = "SMS"]
      [] OTHER -> [r EXCEPT ![col("J1", "Call Type")] = ct] : r \in S }

\* Crime, the cleaned identifiers and the two cell look-ups
cellsJ1(firstID, lastID, S) ==
  { enrichCell("J1",
      enrichCell("J1", [r EXCEPT ![col("J1", "Crime")] = Crime,
                                 ![col("J1", "First Cell ID")] = firstID,
                                 ![col("J1", "Last Cell ID")] = lastID],
                 firstID, TRUE),
      lastID, FALSE) : r \in S }

\* the B-Party switch
bPartyJ1(callRaw, calledRaw, cdrDigits) ==
  CASE last10(callRaw) = cdrDigits /\ calledRaw # "" -> calledRaw
    [] last10(calledRaw) = cdrDigits /\ callRaw # "" -> callRaw
    [] last10(callRaw) # "" /\ last10(callRaw) # cdrDigits -> callRaw
    [] last10(calledRaw) # "" /\ last10(calledRaw) # cdrDigits -> calledRaw
    [] OTHER -> IF callRaw # "" THEN callRaw ELSE calledRaw

\* B Party and the LRN look-up on the digits of lrnRaw
partyAndLrnJ1(bp, l, S) ==
  { lrnFill("J1", [r EXCEPT ![col("J1", "B Party")] = bp], l) : r \in S }

RowsJ1(rec, h, ix, cdr) ==
  partyAndLrnJ1(
    bPartyJ1(Trim(At(rec, ix.calling)), Trim(At(rec, ix.called)), last10(cdr)),
    digits(At(rec, colIdxAny(h, <<"lrn called no", "lrn no", "lrn">>))),
    cellsJ1(digits(At(rec, ix.first)), digits(At(rec, ix.last)),
      typeJ1(ToUpper(Trim(At(rec, colIdx(h, "call type")))), copyJ1(rec, h, cdr))))

\* ---- processAirtel row loop (part_002 278-381) ----
\* copyIf(key, syns...): the first synonym that names a column within rec
copyIf(rec, h, key, syns, row) ==
  LET W == { k \in 1..Len(syns) : InRange(rec, colIdx(h, syns[k])) }
  IN IF W = {} THEN row
     ELSE SetF(row, "A2", key,
               Trim(At(rec, colIdx(h, syns[CHOOSE k \in W : \A j \in W : k <= j]))))

\* 3b) the fixed fields and the identifiers without their hyphens
fixedA2(cdr, S) ==
  { [r EXCEPT ![col("A2", "CdrNo")] = cdr,
              ![col("A2", "Crime")] = Crime,
              ![col("A2", "TimeHH")] =
                 IF GetF(r, "A2", "Time") # "" THEN Prefix2(GetF(r, "A2", "Time")) ELSE @,
              ![col("A2", "Operator(A-party)")] = "Airtel",
              ![col("A2", "First Cell ID")] = stripHyphen(@),
              ![col("A2", "Last Cell ID")] = stripHyphen(@)] : r \in S }

\* the four copyIf calls
copyIfsA2(rec, h, S) ==
  { copyIf(rec, h, "CallForward", <<"call fow no", "call forwarding">>,
      copyIf(rec, h, "LRN", <<"lrn called no", "lrn no">>,
        copyIf(rec, h, "Roaming", <<"roam nw", "roaming circle name">>,
          copyIf(rec, h, "Duration", <<"dur(s)", "call duration">>, r)))) : r \in S }

\* what a B-Party column gives the secondary fallback: "" when it is passed over
bpartyOf(rec, h, i, cdr) ==
  IF ~IsBPartyCol(h, i) \/ i >= Len(rec) THEN ""
  ELSE IF last10A2(Trim(At(rec, i))) # "" /\ last10A2(Trim(At(rec, i))) # cdr
  THEN last10A2(Trim(At(rec, i)))
  ELSE IF Trim(At(rec, i)) # "" /\ Trim(At(rec, i)) # cdr THEN Trim(At(rec, i))
  ELSE ""

\* the secondary B-Party fallback: the first of bpartyCols that gives a value
bpartyFallback(rec, h, cdr, S) ==
  { LET W == { i \in 0..(Len(h) - 1) : bpartyOf(rec, h, i, cdr) # "" }
    IN IF GetF(r, "A2", "B Party") # "" \/ W = {} THEN r
       ELSE SetF(r, "A2", "B Party",
                 bpartyOf(rec, h, CHOOSE i \in W : \A j \in W : i <= j, cdr)) : r \in S }

\* the rows up to and including the secondary B-Party fallback
MidA2(rec, h, ix, cdr) ==
  bpartyFallback(rec, h, cdr, copyIfsA2(rec, h, fixedA2(cdr,
    copyLoop("A2", rec, src2dstA2(h, ix), blank("A2"), cdr))))

\* rec[i1], rec[i2] of the final fallback are read without a length check
PanicsA2(rec, h, row) ==
  /\ GetF(row, "A2", "B Party") = ""
  /\ colIdx(h, "calling party telephone number") >= 0
  /\ colIdx(h, "called party telephone number") >= 0
  /\ \/ colIdx(h, "calling party telephone number") >= Len(rec)
     \/ colIdx(h, "called party telephone number") >= Len(rec)

\* the final fallback: calling / called
finalFallbackA2(a, b, both, cdr, S) ==
  { IF GetF(r, "A2", "B Party") = "" /\ both
    THEN SetF(r, "A2", "B Party",
              CASE last10A2(a) = cdr -> last10A2(b)
                [] last10A2(b) = cdr -> last10A2(a)
                [] OTHER -> last10A2(b))
    ELSE r : r \in S }

\* enrich from LRN.csv: provider and circle where they are blank
lrnA2(S) ==
  { IF lrnDB("A2", digits(GetF(r, "A2", "LRN"))).ok
    THEN [r EXCEPT ![col("A2", "B Party Provider")] =
                      IF @ = "" THEN lrnDB("A2", digits(GetF(r, "A2", "LRN"))).Provider ELSE @,
                   ![col("A2", "B Party Circle")] =
                      IF @ = "" THEN lrnDB("A2", digits(GetF(r, "A2", "LRN"))).Circle ELSE @]
    ELSE r : r \in S }

\* lookupCell on the first and on the last identifier (processAirtel, processVI)
lookupCells(v, S) ==
  { [r EXCEPT
       ![col(v, "First Cell ID Address")] =
          IF findCell(v, GetF(r, v, "First Cell ID")) # NoCell /\ @ = ""
          THEN findCell(v, GetF(r, v, "First Cell ID")).addr ELSE @,
       ![col(v, "Lat")] =
          IF findCell(v, GetF(r, v, "First Cell ID")) # NoCell
          THEN findCell(v, GetF(r, v, "First Cell ID")).lat ELSE @,
       ![col(v, "Long")] =
          IF findCell(v, GetF(r, v, "First Cell ID")) # NoCell
          THEN findCell(v, GetF(r, v, "First Cell ID")).lon ELSE @,
       ![col(v, "Azimuth")] =
          IF findCell(v, GetF(r, v, "First Cell ID")) # NoCell
          THEN findCell(v, GetF(r, v, "First Cell ID")).az ELSE @,
       ![col(v, "Last Cell ID Address")] =
          IF findCell(v, GetF(r, v, "Last Cell ID")) # NoCell /\ @ = ""
          THEN findCell(v, GetF(r, v, "Last Cell ID")).addr ELSE @] : r \in S }

RowsA2(rec, h, ix, cdr) ==
  lookupCells("A2", lrnA2(
    finalFallbackA2(
      pick(rec, colIdx(h, "calling party telephone number")),
      pick(rec, colIdx(h, "called party telephone number")),
      colIdx(h, "calling party telephone number") >= 0
        /\ colIdx(h, "called party telephone number") >= 0,
      cdr, MidA2(rec, h, ix, cdr))))

\* ---- processVI appendRow (part_004 244-292) ----
\* the call-type fallback and the post-processing of the copied row
postV2(rec, ctFallback, cdr, S) ==
  { [r EXCEPT ![col("V2", "Call Type")] =
                 IF @ = "" /\ ctFallback # -1 /\ ctFallback < Len(rec)
                 THEN Trim(At(rec, ctFallback)) ELSE @,
              ![col("V2", "CdrNo")] = cdr,
              ![col("V2", "A Party")] = cdr,
              ![col("V2", "Operator(A-party)")] = "VI",
              ![col("V2", "Circle(A-party)")] = GetF(r, "V2", "Roaming"),
              ![col("V2", "TimeHH")] =
                 IF GetF(r, "V2", "Time") # "" THEN Prefix2(GetF(r, "V2", "Time")) ELSE @,
              ![col("V2", "Crime")] = Crime,
              ![col("V2", "B Party")] = IF @ # "" THEN last10(@) ELSE @,
              ![col("V2", "First Cell ID")] = stripHyphen(@),
              ![col("V2", "Last Cell ID")] = stripHyphen(@)] : r \in S }

\* LRN -> Provider / Circle
lrnV2(S) ==
  { IF digits(GetF(r, "V2", "LRN")) # "" /\ lrnDB("V2", digits(GetF(r, "V2", "LRN"))).ok
    THEN [r EXCEPT ![col("V2", "B Party Provider")] =
                      lrnDB("V2", digits(GetF(r, "V2", "LRN"))).Provider,
                   ![col("V2", "B Party Circle")] =
                      lrnDB("V2", digits(GetF(r, "V2", "LRN"))).Circle]
    ELSE r : r \in S }

RowsV2(rec, h, cdr) ==
  lrnV2(lookupCells("V2",
    postV2(rec, colIdxAny(h, <<"call type", "call_type", "type of call">>), cdr,
      copyLoop("V2", rec, src2dstV2(h), blank("V2"), cdr))))

\* ---- processBSNL process (part_000 998-1040) ----
\* the mapCol calls of processBSNL, in order (934-946)
mapColsB2 ==
  << <<"call_date", "Date">>, <<"call_initiation_time", "Time">>,
     <<"call_duration", "Duration">>, <<"other_party_no", "B Party">>,
     <<"call_type", "Call Type">>, <<"first_cell_id", "First Cell ID">>,
     <<"last_cell_id", "Last Cell ID">>, <<"imei", "IMEI">>, <<"imsi", "IMSI">>,
     <<"roaming circle", "Roaming">>, <<"lrn_b_party_no", "LRN">>,
     <<"call_forward", "CallForward">>, <<"service_type", "Type">> >>

\* the slot source column i has after the header loop (913-925) and the
\* mapCol calls, which map a column that has no slot yet; 0 if none
slotB2(h, i) ==
  IF alias2canon(norm(At(h, i))) = "B Party" \/ norm(At(h, i)) = "b party no"
  THEN col("B2", "B Party")
  ELSE IF alias2canon(norm(At(h, i))) # "" THEN dstIdx("B2", alias2canon(norm(At(h, i))))
  ELSE IF norm(At(h, i)) \in callAlias THEN col("B2", "Call Type")
  ELSE IF \E k \in 1..Len(mapColsB2) : colIdx(h, mapColsB2[k][1]) = i
  THEN col("B2", mapColsB2[CHOOSE k \in 1..Len(mapColsB2) :
                              colIdx(h, mapColsB2[k][1]) = i][2])
  ELSE 0

\* src2dst of processBSNL
src2dstB2(h) ==
  [ i \in { j \in 0..(Len(h) - 1) : slotB2(h, j) # 0 } |-> slotB2(h, i) ]

\* the copy loop, the fixed fields, the identifiers without their hyphens,
\* lookupCell on both and the LRN look-up
RowsB2(rec, h, cdr) ==
  { [r2 EXCEPT
       ![col("B2", "First Cell ID Address")] =
          IF findCell("B2", GetF(r2, "B2", "First Cell ID")) # NoCell
          THEN findCell("B2", GetF(r2, "B2", "First Cell ID")).addr ELSE @,
       ![col("B2", "Lat")] =
          IF findCell("B2", GetF(r2, "B2", "First Cell ID")) # NoCell
          THEN findCell("B2", GetF(r2, "B2", "First Cell ID")).lat ELSE @,
       ![col("B2", "Long")] =
          IF findCell("B2", GetF(r2, "B2", "First Cell ID")) # NoCell
          THEN findCell("B2", GetF(r2, "B2", "First Cell ID")).lon ELSE @,
       ![col("B2", "Azimuth")] =
          IF findCell("B2", GetF(r2, "B2", "First Cell ID")) # NoCell
          THEN findCell("B2", GetF(r2, "B2", "First Cell ID")).az ELSE @,
       ![col("B2", "Last Cell ID Address")] =
          IF findCell("B2", GetF(r2, "B2", "Last Cell ID")) # NoCell
          THEN findCell("B2", GetF(r2, "B2", "Last Cell ID")).addr ELSE @,
       ![col("B2", "B Party Provider")] =
          IF digits(GetF(r2, "B2", "LRN")) # "" /\ lrnDB("B2", digits(GetF(r2, "B2", "LRN"))).ok
          THEN lrnDB("B2", digits(GetF(r2, "B2", "LRN"))).Provider ELSE @,
       ![col("B2", "B Party Circle")] =
          IF digits(GetF(r2, "B2", "LRN")) # "" /\ lrnDB("B2", digits(GetF(r2, "B2", "LRN"))).ok
          THEN lrnDB("B2", digits(GetF(r2, "B2", "LRN"))).Circle ELSE @]
      : r2 \in { [r EXCEPT ![col("B2", "CdrNo")] = cdr,
                           ![col("B2", "Crime")] = Crime,
                           ![col("B2", "TimeHH")] =
                              IF GetF(r, "B2", "Time") # ""
                              THEN Prefix2(GetF(r, "B2", "Time")) ELSE @,
                           ![col("B2", "First Cell ID")] = stripHyphen(@),
                           ![col("B2", "Last Cell ID")] = stripHyphen(@)]
                   : r \in copyLoop("B2", rec, src2dstB2(h), blank("B2"), cdr) } }

\* ---- the row normaliser of every variant ----
\* the rows writeRow can build from rec (several only where a Go map feeds
\* one slot from several columns)
Rows(v, rec, h, ix, cdr) ==
  CASE v \in {"A1", "A3"} -> RowsA(v, rec, h, ix, cdr)
    [] v = "A2" -> RowsA2(rec, h, ix, cdr)
    [] v = "B1" -> RowsB1(rec, h, cdr)
    [] v = "V1" -> RowsV1(rec, h, cdr)
    [] v = "V2" -> RowsV2(rec, h, cdr)
    [] v = "B2" -> RowsB2(rec, h, cdr)
    [] OTHER    -> RowsJ1(rec, h, ix, cdr)

\* the records on which the row normaliser panics (index out of range)
Panics(v, rec, h, ix, cdr) ==
  CASE v \in {"A1", "A3"} -> ~InRange(rec, ix.first) \/ ~InRange(rec, ix.last)
    [] v = "A2" -> \E r \in MidA2(rec, h, ix, cdr) : PanicsA2(rec, h, r)
    [] v = "J1" -> PanicsJ1(rec, h, ix)
    [] OTHER    -> FALSE

(* ------------------------------ aggregates ----------------------------- *)
\* ---- time stamps ----
\* a "date time" value: the date and the time of a row (parseDT joins them
\* with a blank, processBSNL keeps them apart), or the value of a field
\* that was never assigned
NoTs == [d |-> "", t |-> "", set |-> FALSE]
rowTs(v, row) == [d |-> GetF(row, v, "Date"), t |-> GetF(row, v, "Time"), set |-> TRUE]

\* Go's string order on the dates and the times of the vocabulary
dateRank(d) ==
  CASE d = "" -> 0 [] d = "01/01/2024" -> 1 [] d = "2024-01-01" -> 2
    [] d = "2024-01-02" -> 3 [] d = "2024-01-03" -> 4 [] d = "31/12/2023" -> 5
    [] OTHER -> 6
timeRank(t) ==
  CASE t = "" -> 0 [] t = "08:00:00" -> 1 [] t = "09:00:00" -> 2
    [] t = "10:00:00" -> 3 [] OTHER -> 4

\* dt < x on the joined strings; d < *fd || (d == *fd && t < *ft) on the pair
dtLess(x, y) ==
  dateRank(x.d) < dateRank(y.d) \/ (x.d = y.d /\ timeRank(x.t) < timeRank(y.t))

\* if a.First == "" || dt < a.First { a.First = dt } (the joined string is
\* never empty), and updateDT's test on the stored date
spanFirst(v, cur, x) ==
  IF (IF v = "B2" THEN cur.d = "" ELSE ~cur.set) \/ dtLess(x, cur) THEN x ELSE cur
spanLast(v, cur, x) ==
  IF (IF v = "B2" THEN cur.d = "" ELSE ~cur.set) \/ dtLess(cur, x) THEN x ELSE cur

\* ---- direction counters ----
\* strings.Contains(s, "SMS"), strings.HasSuffix(s, "OUT") and
\* strings.Contains(s, "OUT") on the call types of the vocabulary
ContainsSMS(s) == s \in {"SMS_OUT"}
EndsWithOUT(s) == s \in {"OUT", "CALL_OUT", "SMS_OUT"}
ContainsOUT(s) == s \in {"OUT", "CALL_OUT", "SMS_OUT"}

\* the counter that the switch on the row's call type increments ("None":
\* no counter)
dirOf(v, ct) ==
  CASE v \in {"A1", "V1"} ->
         IF ct = "CALL_OUT" THEN "Out" ELSE IF ct = "CALL_IN" THEN "In"
         ELSE IF ContainsSMS(ct) THEN (IF EndsWithOUT(ct) THEN "OutS" ELSE "InS")
         ELSE "Other"
    [] v = "B1" ->
         IF ToUpper(ct) \in {"CALL_OUT", "O", "OUT"} THEN "Out"
         ELSE IF ToUpper(ct) \in {"CALL_IN", "I", "IN"} THEN "In"
         ELSE IF ContainsSMS(ct) THEN (IF ContainsOUT(ct) THEN "OutS" ELSE "InS")
         ELSE "Other"
    [] v = "V2" ->
         IF ToUpper(ct) \in {"OUT", "CALL_OUT", "A_OUT"} THEN "Out"
         ELSE IF ToUpper(ct) \in {"IN", "CALL_IN", "A_IN"} THEN "In"
         ELSE IF ContainsSMS(ToUpper(ct))
         THEN (IF ContainsOUT(ToUpper(ct)) THEN "OutS" ELSE "InS")
         ELSE "None"
    [] v = "B2" ->
         IF ToUpper(ct) = "OUT" THEN "Out" ELSE IF ToUpper(ct) = "IN" THEN "In"
         ELSE IF ToUpper(ct) = "OUT SMS" THEN "OutS"
         ELSE IF ToUpper(ct) = "IN SMS" THEN "InS"
         ELSE "None"
    [] OTHER -> "None"

\* ---- per-party aggregates ----
\* bKey := row[col["B Party"]]; if bKey == "" { bKey = "(blank)" }
bKey(v, row) == IF GetF(row, v, "B Party") = "" THEN "(blank)" ELSE GetF(row, v, "B Party")

\* the aggregate a row's party has before the update: the map's entry, or
\* the new entry the code makes (Provider is taken from the creating row)
aggEntry(v, a, row) ==
  IF bKey(v, row) \in DOMAIN a THEN a[bKey(v, row)]
  ELSE [Total |-> 0, Dur |-> 0,
        Provider |-> IF v \in {"V2", "B2"} THEN "" ELSE GetF(row, v, "B Party Provider"),
        Out |-> 0, In |-> 0, OutS |-> 0, InS |-> 0, Other |-> 0,
        First |-> NoTs, Last |-> NoTs,
        Days |-> {}, Cells |-> {}, Imeis |-> {}, Imsis |-> {}]

\* if v := ...; v != "" { set[v] = struct{}{} }
addNonEmpty(S, x) == IF x = "" THEN S ELSE S \cup {x}

\* a.Days[row[col["Date"]]] = struct{}{}; processAirtel keeps no sets
aggDays(v, e, row) == IF v = "A2" THEN {} ELSE e.Days \cup {GetF(row, v, "Date")}

\* the cells of a party: the non-empty first and last identifier (normalizeAirtel,
\* normBSNL, normVI); pa.Cells[fid], pa.Cells[lid] with the hyphens removed
\* and no test for "" (processBSNL); the first identifier only (processVI)
aggCells(v, e, row) ==
  CASE v \in {"A1", "B1", "V1"} ->
         addNonEmpty(addNonEmpty(e.Cells, GetF(row, v, "First Cell ID")),
                     GetF(row, v, "Last Cell ID"))
    [] v = "B2" -> e.Cells \cup { stripHyphen(GetF(row, v, "First Cell ID")),
                                   stripHyphen(GetF(row, v, "Last Cell ID")) }
    [] v = "V2" -> addNonEmpty(e.Cells, stripHyphen(GetF(row, v, "First Cell ID")))
    [] OTHER -> {}

\* the device sets of normalizeAirtel, normBSNL and normVI
aggDevices(v, S, x) == IF v \in {"A1", "B1", "V1"} THEN addNonEmpty(S, x) ELSE {}

\* the counter set rather than incremented
aggTotalSet(e) == 1
\* a.Total++ / a.Tot++ / a.TotalCalls++ / a.calls++ / pa.Calls++
aggTotal(e) == e.Total + 1

\* the duration assigned rather than added
aggDurAssign(e, d) == IF ParseFloatOk(d) THEN ParseFloatVal(d) ELSE e.Dur
\* if d, er := strconv.ParseFloat(row[col["Duration"]], 64); er == nil { a.Dur += d }
aggDur(e, d) == IF ParseFloatOk(d) THEN e.Dur + ParseFloatVal(d) ELSE e.Dur

\* processVI: if prov := row[...]; prov != "" { pa.Provider = prov }
aggProvider(v, e, row) ==
  IF v = "V2" /\ GetF(row, v, "B Party Provider") # ""
  THEN GetF(row, v, "B Party Provider") ELSE e.Provider

\* the summary update that follows the write of a row; the two csv-only
\* normalisers (A3, J1) keep no aggregates
updateAgg(v, a, row) ==
  IF v \notin AggVariants THEN a
  ELSE LET e == aggEntry(v, a, row)
       IN [k \in DOMAIN a \cup {bKey(v, row)} |->
             IF k = bKey(v, row)
             THEN [Total |-> aggTotal(e), Dur |-> aggDur(e, GetF(row, v, "Duration")),
                   Provider |-> aggProvider(v, e, row),
                   Out   |-> e.Out   + (IF dirOf(v, GetF(row, v, "Call Type")) = "Out" THEN 1 ELSE 0),
                   In    |-> e.In    + (IF dirOf(v, GetF(row, v, "Call Type")) = "In" THEN 1 ELSE 0),
                   OutS  |-> e.OutS  + (IF dirOf(v, GetF(row, v, "Call Type")) = "OutS" THEN 1 ELSE 0),
                   InS   |-> e.InS   + (IF dirOf(v, GetF(row, v, "Call Type")) = "InS" THEN 1 ELSE 0),
                   Other |-> e.Other + (IF dirOf(v, GetF(row, v, "Call Type")) = "Other" THEN 1 ELSE 0),
                   First |-> IF v = "A2" THEN NoTs ELSE spanFirst(v, e.First, rowTs(v, row)),
                   Last  |-> IF v = "A2" THEN NoTs ELSE spanLast(v, e.Last, rowTs(v, row)),
                   Days  |-> aggDays(v, e, row),
                   Cells |-> aggCells(v, e, row),
                   Imeis |-> aggDevices(v, e.Imeis, GetF(row, v, "IMEI")),
                   Imsis |-> aggDevices(v, e.Imsis, GetF(row, v, "IMSI"))]
             ELSE a[k]]

\* ---- per-cell aggregates (maxStay, stays, cells) ----
\* the variants that keep them
CellVariants == {"V1", "A2", "V2", "B2"}

\* the key: the row's first cell identifier (normVI), or that identifier
\* without hyphens (firstID / fid of the workbook variants)
cellKeyOf(v, row) ==
  IF v = "V1" THEN GetF(row, v, "First Cell ID")
  ELSE stripHyphen(GetF(row, v, "First Cell ID"))

\* a row is counted unless its key is empty; processAirtel counts every row
cellCounted(v, row) == v \in CellVariants /\ (v = "A2" \/ cellKeyOf(v, row) # "")

\* strings.Split(llaz, ",") on the values of the cell table
llaPart(s, f) ==
  IF \E r \in CellRows : r.lla = s THEN (CHOOSE r \in CellRows : r.lla = s)[f] ELSE ""

\* the address, position and roaming value that a row gives a cell
cellCapture(v, row) ==
  [Addr |-> GetF(row, v, "First Cell ID Address"),
   Lat  |-> IF v = "V1" THEN llaPart(GetF(row, v, "Lat-Long-Azimuth (First CellID)"), "lat")
            ELSE GetF(row, v, "Lat"),
   Lon  |-> IF v = "V1" THEN llaPart(GetF(row, v, "Lat-Long-Azimuth (First CellID)"), "lon")
            ELSE GetF(row, v, "Long"),
   Az   |-> IF v = "V1" THEN llaPart(GetF(row, v, "Lat-Long-Azimuth (First CellID)"), "az")
            ELSE GetF(row, v, "Azimuth"),
   Roam |-> IF v = "A2" THEN "" ELSE GetF(row, v, "Roaming")]

\* the fields captured when the entry is made (normVI, processAirtel) or
\* while the entry's address is empty (processVI, processBSNL)
cellFields(v, e, isNew, row) ==
  IF (IF v \in {"V1", "A2"} THEN isNew ELSE e.Addr = "")
  THEN cellCapture(v, row)
  ELSE [Addr |-> e.Addr, Lat |-> e.Lat, Lon |-> e.Lon, Az |-> e.Az, Roam |-> e.Roam]

\* the earliest and latest value after the row: processAirtel sets both
\* when it makes the entry and only the latest afterwards
cellFirst(v, e, isNew, x) ==
  IF v = "A2" THEN (IF isNew THEN x ELSE e.First) ELSE spanFirst(v, e.First, x)
cellLast(v, e, isNew, x) ==
  IF v = "A2" THEN x ELSE spanLast(v, e.Last, x)

NoCellAgg == [Calls |-> 0, Addr |-> "", Lat |-> "", Lon |-> "", Az |-> "", Roam |-> "",
              First |-> NoTs, Last |-> NoTs]

\* the entry of key k before the row, and after it
cellEntry(cl, k) == IF k \in DOMAIN cl THEN cl[k] ELSE NoCellAgg
cellAfter(v, e, row) ==
  [f \in {"Calls", "Addr", "Lat", "Lon", "Az", "Roam", "First", "Last"} |->
     CASE f = "Calls" -> e.Calls + 1
       [] f = "First" -> cellFirst(v, e, e.Calls = 0, rowTs(v, row))
       [] f = "Last"  -> cellLast(v, e, e.Calls = 0, rowTs(v, row))
       [] OTHER -> cellFields(v, e, e.Calls = 0, row)[f]]

updateCells(v, cl, row) ==
  IF ~cellCounted(v, row) THEN cl
  ELSE [k \in DOMAIN cl \cup {cellKeyOf(v, row)} |->
          IF k # cellKeyOf(v, row) THEN cl[k]
          ELSE cellAfter(v, cellEntry(cl, k), row)]

RECURSIVE SumTotal(_, _)
SumTotal(a, ks) ==
  IF ks = {} THEN 0
  ELSE LET k == CHOOSE x \in ks : TRUE IN a[k].Total + SumTotal(a, ks \ {k})

\* the orders in which a Go map can be ranged over
Perms(S) ==
  { p \in [1..Cardinality(S) -> S] : \A i, j \in 1..Cardinality(S) : i # j => p[i] # p[j] }

\* the orders sort.Slice can leave for "less(i, j) = val(i) > val(j)": every
\* order that is non-increasing in val (the sort is not stable)
SortedDesc(a, f) ==
  { p \in Perms(DOMAIN a) :
      \A i, j \in 1..Len(p) : i < j => a[p[i]][f] >= a[p[j]][f] }

TableRow(c, a, k) == [cdr |-> c, key |-> k, prov |-> a[k].Provider,
                      calls |-> a[k].Total, dur |-> a[k].Dur]

\* time.Parse("2006-01-02", s) as days since the zero time; the error is
\* dropped, which leaves the zero time
dayNo(s) ==
  CASE s = "2024-01-01" -> 738885 [] s = "2024-01-02" -> 738886
    [] s = "2024-01-03" -> 738887 [] OTHER -> 0

\* int(t2.Sub(t1).Hours()/24) + 1: Sub saturates at the largest Duration,
\* 106751.99 days, and int() drops the fraction
daysBetween(fd, ld) ==
  (IF dayNo(ld) - dayNo(fd) > 106751 THEN 106751
   ELSE IF dayNo(ld) - dayNo(fd) < -106751 THEN -106751
   ELSE dayNo(ld) - dayNo(fd)) + 1

\* the "Days" cell of processBSNL's max_stay sheet ("-" is the sentinel);
\* the other variants have no such column
stayDays(v, e) ==
  IF v # "B2" THEN [shown |-> FALSE, sentinel |-> FALSE, n |-> 0]
  ELSE IF e.First.d # "" /\ e.Last.d # ""
  THEN [shown |-> TRUE, sentinel |-> FALSE, n |-> daysBetween(e.First.d, e.Last.d)]
  ELSE [shown |-> TRUE, sentinel |-> TRUE, n |-> 0]

\* normVI's substitutes for empty cells of the max stay report
orUnknown(v, s) == IF v = "V1" /\ s = "" THEN "Unknown" ELSE s
orZero(v, s) == IF v = "V1" /\ s = "" THEN "0" ELSE s

StayRow(v, c, cl, k) ==
  [cdr |-> c, key |-> k, calls |-> cl[k].Calls, days |-> stayDays(v, cl[k]),
   addr |-> orUnknown(v, cl[k].Addr), lat |-> orZero(v, cl[k].Lat),
   lon |-> orZero(v, cl[k].Lon), az |-> orZero(v, cl[k].Az),
   roam |-> orUnknown(v, cl[k].Roam), first |-> cl[k].First, last |-> cl[k].Last]

\* the orders of the max stay table: normVI and processAirtel range over
\* the map, processVI and processBSNL sort by calls
StayOrders(v, cl) ==
  IF v \in {"V1", "A2"} THEN Perms(DOMAIN cl) ELSE SortedDesc(cl, "Calls")

NoTables == [summary |-> << >>, maxCalls |-> << >>, maxDur |-> << >>, totalLine |-> << >>,
             maxStay |-> << >>]

\* the tables that the tail of a normaliser can write from the aggregates:
\* the summary ranges over the map; max calls and max duration are sorted
\* (normVI, processAirtel, processVI, processBSNL); normVI puts a "Total"
\* line first; the max stay table lists the cells
Tables(v, c, a, cl) ==
  IF v \notin AggVariants THEN { NoTables }
  ELSE IF v \in {"A1", "B1"}
  THEN { [NoTables EXCEPT !.summary = [i \in 1..Len(p) |-> TableRow(c, a, p[i])]]
           : p \in Perms(DOMAIN a) }
  ELSE { [summary  |-> [i \in 1..Len(p) |-> TableRow(c, a, p[i])],
          maxCalls |-> [i \in 1..Len(q) |-> TableRow(c, a, q[i])],
          maxDur   |-> [i \in 1..Len(r) |-> TableRow(c, a, r[i])],
          totalLine |-> IF v = "V1" THEN << "Total", c, SumTotal(a, DOMAIN a) >> ELSE << >>,
          maxStay  |-> [i \in 1..Len(s) |-> StayRow(v, c, cl, s[i])]]
           : p \in Perms(DOMAIN a), q \in SortedDesc(a, "Total"), r \in SortedDesc(a, "Dur"),
             s \in StayOrders(v, cl) }

(* ------------------------------ the run -------------------------------- *)
VARIABLES
  variant,   \* which normaliser runs
  scen,      \* the vocabulary the input is drawn from
  src,       \* the name of the uploaded file
  file,      \* the lines of the input known so far
  pos,       \* how many of them the reader has returned
  open,      \* the input may still grow (FALSE once its end has been read)
  nf,        \* csv.Reader.FieldsPerRecord
  lastErr,   \* the error of the last Read: "none", "nil", "parse", "fieldcount", "eof"
  pc,        \* "hdr", "first", "rows", "done", "err", "panic"
  cdr, header, idx,
  created,   \* the output file exists on disk
  out,       \* the canonical rows handed to the writer / appended to report
  agg,       \* summary / summaryAgg / parties
  cells,     \* maxStay / stays / cells
  tables,    \* the summary and ranked tables written at the end
  errMsg,
  runNo, prev,      \* the second run over the same input, and the first one's result
  nData, nDropped,  \* records read after the header, and those the loop skipped
  conc       \* two concurrent requests and the files they share

vars == << variant, scen, src, file, pos, open, nf, lastErr, pc, cdr, header, idx,
           created, out, agg, cells, tables, errMsg, runNo, prev, nData, nDropped,
           conc >>

\* no concurrent requests
NoConc == [fs |-> << >>, run |-> << >>]

\* the state of a normaliser at its first Read
Fresh ==
  /\ pos = 0 /\ nf = InitFieldsPerRecord(variant) /\ lastErr = "none"
  /\ pc = "hdr" /\ cdr = "" /\ header = << >> /\ idx = InitIdx(variant)
  /\ created = FALSE /\ out = << >> /\ agg = << >> /\ cells = << >>
  /\ tables = NoTables
  /\ errMsg = "" /\ nData = 0 /\ nDropped = 0

\* an upload drawn from the vocabulary of scenario sc
Upload(sc) ==
  /\ scen = sc
  /\ variant \in (IF sc = "dur" THEN DurVariants
                  ELSE IF sc = "party" THEN PartyVariants
                  ELSE IF sc = "dup" THEN DupVariants
                  ELSE IF sc = "fmt" THEN FmtVariants
                  ELSE IF sc = "sets" THEN SetVariants
                  ELSE IF sc = "live" THEN LiveVariants
                  ELSE IF sc = "enrich" THEN EnrichVariants
                  ELSE IF sc = "order" THEN OrderVariants ELSE Variants)
  /\ CASE sc = "struct" -> src \in SrcNames /\ file = << >>
       [] sc = "agg" ->
            /\ src = "report.csv"
            /\ file = << AggBannerLine(variant), Line(AggHeader(variant), FALSE) >>
       [] sc = "dup" ->
            /\ src = "report.csv"
            /\ file = << DupBannerLine(variant), Line(DupHeader(variant), FALSE) >>
       [] sc = "id" ->
            /\ src = "cdr7.csv"
            /\ file = << ShortBannerLine(variant), Line(FullHeader(variant), FALSE) >>
       [] sc = "enrich" ->
            /\ src = "report.csv"
            /\ file = << EnrichBannerLine(variant), Line(EnrichHeader(variant), FALSE) >>
       [] sc = "order" ->
            /\ src = "9876543210.csv"
            /\ file \in { << BannerLine(variant), Line(FullHeader(variant), FALSE) >>,
                          << Line(FullHeader(variant), FALSE) >> }
       [] sc = "party" ->
            /\ src = "report.csv"
            /\ file \in { << PartyBannerLine(variant), Line(PartyHeader(variant), FALSE) >>,
                          << Line(PartyHeader(variant), FALSE) >> }
       [] OTHER ->
            /\ src = "report.csv"
            /\ file = << BannerLine(variant), Line(FullHeader(variant), FALSE) >>
  /\ open = TRUE /\ runNo = 1
  /\ prev = [out |-> << >>, agg |-> << >>, tables |-> NoTables]
  /\ conc = NoConc
  /\ Fresh

Init == Upload("struct") \/ Upload("dur")

\* ---- r.Read() ----
NextLines ==
  IF pos < Len(file) THEN { file[pos + 1] }
  ELSE IF open /\ (CASE scen = "dur" -> nData < MaxDurRows
                      [] scen = "agg" -> nData < MaxAggRows
                      [] scen = "party" -> nData < MaxPartyRows
                      [] scen = "dup" -> nData < MaxDupRows
                      [] scen = "fmt" -> nData < MaxFmtRows
                      [] scen = "id" -> nData < MaxIdRows
                      [] scen = "sets" -> nData < MaxSetRows
                      [] scen = "live" -> nData < MaxLiveRows
                      [] scen = "enrich" -> nData < MaxEnrichRows
                      [] scen = "order" -> nData < MaxOrderRows
                      [] OTHER -> Len(file) < MaxLines)
  THEN Lines(variant, scen, header)
  ELSE {}

\* Read returns the record of line L
ReadLine(L) ==
  /\ lastErr # "io"
  /\ file' = IF pos < Len(file) THEN file ELSE Append(file, L)
  /\ pos' = pos + 1
  /\ nf' = CsvNext(L, nf)
  /\ lastErr' = CsvErr(L, nf)
  /\ open' = open

\* Read returns io.EOF
ReadEnd ==
  /\ lastErr # "io"
  /\ pos = Len(file)
  /\ file' = file /\ pos' = pos /\ nf' = nf
  /\ lastErr' = "eof"
  /\ open' = FALSE

\* the locals of the normaliser, and their assignment by a step
Cur == [pc |-> pc, cdr |-> cdr, header |-> header, idx |-> idx, created |-> created,
        out |-> out, agg |-> agg, cells |-> cells, errMsg |-> errMsg]

Apply(o) ==
  /\ pc' = o.pc /\ cdr' = o.cdr /\ header' = o.header /\ idx' = o.idx
  /\ created' = o.created /\ out' = o.out /\ agg' = o.agg /\ cells' = o.cells
  /\ errMsg' = o.errMsg

\* return "", errors.New(msg)
Fail(o, msg) == [o EXCEPT !.pc = "err", !.errMsg = msg]

\* ---- the straight-line code between the header row and the next Read ----
AfterHeader(v, o) ==
  CASE v = "A1" ->
         IF o.cdr = "" THEN Fail(o, "cannot extract CDR")
         ELSE IF o.idx.first = 0 \/ o.idx.last = 0 THEN Fail(o, "missing First/Last CGI")
         ELSE [o EXCEPT !.pc = "rows", !.created = TRUE]
    [] v = "A3" ->
         IF o.cdr = "" THEN Fail(o, "could not extract CDR number")
         ELSE IF o.idx.first = -1 \/ o.idx.last = -1
         THEN Fail(o, "CSV lacks First/Last CGI columns")
         ELSE [o EXCEPT !.pc = "rows", !.created = TRUE]
    [] v = "A2" ->
         IF o.cdr = "" THEN Fail(o, "CDR not found") ELSE [o EXCEPT !.pc = "rows"]
    [] v = "J1" ->
         IF o.cdr = "" THEN [o EXCEPT !.pc = "first"]
         ELSE [o EXCEPT !.pc = "rows", !.created = TRUE]
    [] OTHER -> [o EXCEPT !.pc = "first"]

\* ---- one pass of the header loop over the record of line L ----
\* the identifier after the pass (processVI reads its first record ahead of
\* the loop, and does not search it for the banner when it is the header)
hdrCdr(v, o, rec, isH, first) ==
  IF v = "V2" /\ first THEN (IF isH THEN "" ELSE extractCdr(v, rec))
  ELSE IF o.cdr = "" THEN extractCdr(v, rec)
  ELSE o.cdr

\* (an error of processVI's first Read is "empty file")
HeaderStep(v, o, L, e, first) ==
  IF e # "nil"
  THEN { IF v = "V2" /\ first THEN Fail(o, "empty file") ELSE o }
  ELSE UNION {
         IF IsHeader(v, L.f, ix)
         THEN { AfterHeader(v, o2)
                  : o2 \in { [o EXCEPT !.cdr = hdrCdr(v, o, L.f, TRUE, first),
                                       !.header = L.f,
                                       !.idx = HeaderIdx(v, L.f, ix)] } }
         ELSE { [o EXCEPT !.cdr = hdrCdr(v, o, L.f, FALSE, first), !.idx = ix] }
           : ix \in { ScanIdx(v, L.f, o.idx) } }

\* the end of the input with the output file already created
HeaderEndCreated(v, o, first) ==
  [Fail(o, IF v = "V2" /\ first THEN "empty file" ELSE NoHeaderMsg(v)) EXCEPT !.created = TRUE]
\* the end of the input in the header loop
HeaderEnd(v, o, first) ==
  Fail(o, IF v = "V2" /\ first THEN "empty file" ELSE NoHeaderMsg(v))

\* ---- writeRow / write / appendRow and the body of the row loops ----
\* what handing rec to the row normaliser can lead to
Emit(v, o, rec) ==
  IF Len(rec) = 0 THEN { o }
  ELSE IF Panics(v, rec, o.header, o.idx, o.cdr)
  THEN { [o EXCEPT !.pc = "panic", !.errMsg = "index out of range"] }
  ELSE { [o EXCEPT !.pc = "rows", !.out = Append(o.out, row),
                   !.agg = updateAgg(v, o.agg, row),
                   !.cells = updateCells(v, o.cells, row)]
           : row \in Rows(v, rec, o.header, o.idx, o.cdr) }
       \cup (IF v = "A3" THEN { Fail(o, "write error") } ELSE {})

\* the identifier the first data row gives: the designated column
\* (normBSNL, normVI, processVI) or the "input value" position (normJio)
idFromFirst(v, o, rec) ==
  CASE o.cdr # "" -> o.cdr
    [] v = "J1" ->
         IF Len(rec) > o.idx.input THEN find8to15(At(rec, o.idx.input)) ELSE ""
    [] OTHER ->
         LET i == colIdxAny(o.header,
                    CASE v \in {"B1", "B2"} -> << "search value" >>
                      [] v = "V1" -> << "msisdn", "msisdn no", "msisdn number" >>
                      [] OTHER    -> << "msisdn", "msisdn number" >>)
         IN IF i # -1 /\ i < Len(rec) THEN digits(At(rec, i)) ELSE ""

\* cdr = digits(filepath.Base(src)) of normBSNL and processVI
idFromName(v, c, name) == IF c = "" /\ v \in {"B1", "B2", "V2"} THEN digits(name) ELSE c

\* a first-row step that uses the row for the identifier and does not hand
\* it to the row normaliser
FirstStepNoWrite(v, o, rec, e, name) ==
  IF v \in {"B1", "V1"} /\ e # "nil"
  THEN { Fail(o, IF v = "B1" THEN "no data rows" ELSE "header present but no data") }
  ELSE { IF c = "" /\ v # "V1"
         THEN Fail([o EXCEPT !.cdr = c], "CDR not found")
         ELSE [o EXCEPT !.cdr = c, !.pc = "rows", !.created = (v \notin {"V2", "B2"})]
           : c \in { idFromName(v, idFromFirst(v, o, rec), name) } }

\* the Read of the first data row and the code up to the row loop; rec is
\* << >> when the Read returned no record
FirstStep(v, o, rec, e, name) ==
  IF v \in {"B1", "V1"} /\ e # "nil"
  THEN { Fail(o, IF v = "B1" THEN "no data rows" ELSE "header present but no data") }
  ELSE UNION {
         IF c = "" /\ v # "V1"
         THEN { Fail([o EXCEPT !.cdr = c],
                     CASE v \in {"B1", "B2"} -> "cannot determine CDR"
                       [] v = "V2" -> "cannot find CDR"
                       [] OTHER    -> "CDR not found") }
         ELSE UNION { Emit(v, o1, rec)
                        : o1 \in { [o EXCEPT !.cdr = c, !.pc = "rows",
                                             !.created = (v \notin {"V2", "B2"})] } }
           : c \in { idFromName(v, idFromFirst(v, o, rec), name) } }

\* strings.HasPrefix(s, "this is system") || strings.Contains(s, "system generated")
skip(s) == s = FooterText

\* the row loop's test: if err != nil || len(rec) == 0 [|| skip(rec[0])] { continue }
Dropped(v, L, e) == e # "nil" \/ Len(L.f) = 0 \/ (v = "A3" /\ skip(L.f[1]))

\* the code after the row loop
Finish(v, o) ==
  CASE v \in {"A3", "J1"} ->
         { [o EXCEPT !.pc = "done"], Fail(o, "write error") }
    [] v \in {"A2", "V2", "B2"} ->
         { [o EXCEPT !.pc = "done", !.created = TRUE], Fail(o, "save error") }
    [] OTHER -> { [o EXCEPT !.pc = "done"] }

(* ------------------------------ actions -------------------------------- *)
\* one Read of the header loop, with the code up to the next Read or return
ReadHeader ==
  /\ pc = "hdr"
  /\ \/ \E L \in NextLines :
          /\ ReadLine(L)
          /\ \E o \in HeaderStep(variant, Cur, L, CsvErr(L, nf), pos = 0) : Apply(o)
     \/ /\ ReadEnd
        /\ \E o \in { HeaderEnd(variant, Cur, pos = 0) } : Apply(o)
  /\ UNCHANGED << variant, scen, src, tables, runNo, prev, nData, nDropped, conc >>

\* the Read of the first data row (normBSNL, normVI, processVI; normJio when
\* the banner gave no identifier), with the code up to the row loop
ReadFirst ==
  /\ pc = "first"
  /\ \/ \E L \in NextLines :
          /\ ReadLine(L)
          /\ \E o \in FirstStep(variant, Cur, L.f, CsvErr(L, nf), src) : Apply(o)
          /\ nData' = nData + 1
     \/ /\ ReadEnd
        /\ \E o \in FirstStep(variant, Cur, << >>, "eof", src) : Apply(o)
        /\ nData' = nData
  /\ UNCHANGED << variant, scen, src, tables, runNo, prev, nDropped, conc >>

\* one Read of the row loop that returns a record: the record is skipped or
\* normalised, written and aggregated
ReadData ==
  /\ pc = "rows"
  /\ \E L \in NextLines :
       /\ ReadLine(L)
       /\ nData' = nData + 1
       /\ IF Dropped(variant, L, CsvErr(L, nf))
          THEN /\ nDropped' = nDropped + 1
               /\ UNCHANGED << pc, cdr, header, idx, created, out, agg, cells, errMsg >>
          ELSE /\ nDropped' = nDropped
               /\ \E o \in Emit(variant, Cur, L.f) : Apply(o)
  /\ UNCHANGED << variant, scen, src, tables, runNo, prev, conc >>

\* the Read of the row loop that returns io.EOF, and the tail of the
\* normaliser: flush, summary and ranked tables, return
ReadEOF ==
  /\ pc = "rows"
  /\ ReadEnd
  /\ \E o \in Finish(variant, Cur) :
       /\ Apply(o)
       /\ IF o.pc = "done"
          THEN tables' \in Tables(variant, cdr, agg, cells)
          ELSE tables' = NoTables
  /\ UNCHANGED << variant, scen, src, runNo, prev, nData, nDropped, conc >>

\* a Read that returns the error of the medium (os.File.Read fails, the
\* csv reader hands the error on and consumes nothing); a medium that has
\* failed fails every later Read.  The header loop and the row loop take
\* the error as that of a malformed record and go to the next Read; the
\* Read of the first data row takes it as it takes the end of the stream.
ReadFails ==
  /\ pc \in {"hdr", "first", "rows"}
  /\ lastErr' = "io"
  /\ UNCHANGED << file, pos, nf, open >>
  /\ CASE pc = "hdr" ->
            \E o \in HeaderStep(variant, Cur, Line(<< >>, FALSE), "io", pos = 0) : Apply(o)
       [] pc = "first" ->
            \E o \in FirstStep(variant, Cur, << >>, "io", src) : Apply(o)
       [] OTHER ->
            UNCHANGED << pc, cdr, header, idx, created, out, agg, cells, errMsg >>
  /\ UNCHANGED << variant, scen, src, tables, runNo, prev, nData, nDropped, conc >>

\* the same upload is normalised a second time
Rerun ==
  /\ pc = "done" /\ runNo = 1
  /\ runNo' = 2
  /\ prev' = [out |-> out, agg |-> agg, tables |-> tables]
  /\ pos' = 0 /\ nf' = InitFieldsPerRecord(variant) /\ lastErr' = "none"
  /\ pc' = "hdr" /\ cdr' = "" /\ header' = << >> /\ idx' = InitIdx(variant)
  /\ created' = FALSE /\ out' = << >> /\ agg' = << >> /\ cells' = << >>
  /\ tables' = NoTables
  /\ errMsg' = "" /\ nData' = 0 /\ nDropped' = 0
  /\ UNCHANGED << variant, scen, src, file, open, conc >>

Next == ReadHeader \/ ReadFirst \/ ReadData \/ ReadEOF

Spec == Init /\ [][Next]_vars

\* two runs over one upload
InitTwice == Upload("twice")
SpecTwice == InitTwice /\ [][Next \/ Rerun]_vars

\* one run over an upload of the span scenario
InitAgg == Upload("agg")
SpecAgg == InitAgg /\ [][Next]_vars

\* one run over an upload of the correspondent scenario
InitParty == Upload("party")
SpecParty == InitParty /\ [][Next]_vars

\* one run over an upload of the two-column scenario
InitDup == Upload("dup")
SpecDup == InitDup /\ [][Next]_vars

\* one run over an upload of the date-format scenario
InitFmt == Upload("fmt")
SpecFmt == InitFmt /\ [][Next]_vars

\* one run over an upload of the short-number scenario
InitId == Upload("id")
SpecId == InitId /\ [][Next]_vars

\* one run over an upload of the distinct-sets scenario
InitSets == Upload("sets")
SpecSets == InitSets /\ [][Next]_vars

\* one run over an upload of the look-up scenario
InitEnrich == Upload("enrich")
SpecEnrich == InitEnrich /\ [][Next]_vars

\* one run over an upload of the file-order scenario
InitOrder == Upload("order")
SpecOrder == InitOrder /\ [][Next]_vars

\* one run over an upload on a medium that may fail; the goroutine of the
\* request keeps running: a step that is possible is taken
InitLive == Upload("live")
NextLive == Next \/ ReadFails
SpecLive == InitLive /\ [][NextLive]_vars /\ WF_vars(NextLive)

(* -------------------------- concurrent requests ------------------------ *)
\* net/http serves every request in a goroutine of its own: two requests run
\* UploadAndNormalizeCSV of airtel_filter.go at the same time.  The steps
\* are the system calls on the files; between them a request works on its
\* locals (the csv reader and writers are buffered, so an upload of a few
\* rows is read by one read and its report written by one write at Flush).
Runs == {1, 2}
UploadNames == {"a.csv", "b.csv"}

\* an uploaded file: the banner with the identifier, the header, the rows
BodyOf(c, rows) ==
  << <<"banner", c>>, <<"hdr", "">> >> \o [i \in 1..Len(rows) |-> <<"row", rows[i]>>]
Bodies == { BodyOf(c, rows) : c \in {CdrNum, Party1}, rows \in { <<"x">>, <<"y", "z">> } }

\* filepath.Join("uploads", hdr.Filename), filepath.Join(dstDir,
\* cdrNum+"_reports.csv"), filepath.Join(dstDir, cdrNum+"_summary_reports.csv")
uploadPath(name) == <<"uploads", name>>
reportPath(c) == <<"filtered", c, "_reports.csv">>
summaryPath(c) == <<"filtered", c, "_summary_reports.csv">>
Paths ==
  { uploadPath(n) : n \in UploadNames }
    \cup { reportPath(c) : c \in {CdrNum, Party1} }
    \cup { summaryPath(c) : c \in {CdrNum, Party1} }

\* os.Create(path): the file is there and empty
fsCreate(fs, path) == [fs EXCEPT ![path] = << >>]
\* the write of lines through a descriptor whose offset is 0: the lines
\* replace the start of the file, what lies beyond them stays
fsWrite(fs, path, lines) ==
  [fs EXCEPT ![path] = lines \o SubSeq(@, Len(lines) + 1, Len(@))]

\* the header loop on the lines read: the position of the header row (0:
\* none) and the identifier of the first banner before it
concHeader(input) ==
  IF \E i \in 1..Len(input) : input[i][1] = "hdr"
  THEN CHOOSE i \in 1..Len(input) :
         input[i][1] = "hdr" /\ \A j \in 1..(i - 1) : input[j][1] # "hdr"
  ELSE 0
concCdr(input) ==
  IF \E i \in 1..concHeader(input) : input[i][1] = "banner"
  THEN input[CHOOSE i \in 1..concHeader(input) :
               input[i][1] = "banner" /\ \A j \in 1..(i - 1) : input[j][1] # "banner"][2]
  ELSE ""
\* the records after the header
concRows(input) == SubSeq(input, concHeader(input) + 1, Len(input))

\* what fw holds at Flush: targetHeader and a row for each record; what sw
\* holds: the header and the lines of the request's own summary map
reportOf(c, rows) == << <<"targetHeader", "", "">> >> \o [i \in 1..Len(rows) |-> <<"row", c, rows[i][2]>>]
summaryOf(c, rows) == << <<"summaryHeader", "", 0>>, <<"summary", c, Len(rows)>> >>

\* the locals of request r with field f set to x
SetRun(r, f, x) == [conc.run EXCEPT ![r][f] = x]

InitConc ==
  /\ variant = "A1" /\ scen = "conc" /\ src = "report.csv" /\ file = << >>
  /\ open = FALSE /\ runNo = 1
  /\ prev = [out |-> << >>, agg |-> << >>, tables |-> NoTables]
  /\ Fresh
  /\ conc \in { [fs  |-> [p \in Paths |-> << >>],
                  run |-> [r \in Runs |->
                             [pc |-> "create", name |-> n[r], body |-> b[r],
                              input |-> << >>, cdr |-> "", errMsg |-> ""]]]
                   : n \in [Runs -> UploadNames], b \in [Runs -> Bodies] }

\* saveUploaded: f, err := os.Create(dst)
SaveCreate ==
  /\ \E r \in Runs :
       /\ conc.run[r].pc = "create"
       /\ conc' = [fs  |-> fsCreate(conc.fs, uploadPath(conc.run[r].name)),
                   run |-> SetRun(r, "pc", "copy")]
  /\ UNCHANGED << variant, scen, src, file, pos, open, nf, lastErr, pc, cdr, header, idx,
                  created, out, agg, cells, tables, errMsg, runNo, prev, nData, nDropped >>

\* saveUploaded: io.Copy(f, r)
SaveCopy ==
  /\ \E r \in Runs :
       /\ conc.run[r].pc = "copy"
       /\ conc' = [fs  |-> fsWrite(conc.fs, uploadPath(conc.run[r].name), conc.run[r].body),
                   run |-> SetRun(r, "pc", "open")]
  /\ UNCHANGED << variant, scen, src, file, pos, open, nf, lastErr, pc, cdr, header, idx,
                  created, out, agg, cells, tables, errMsg, runNo, prev, nData, nDropped >>

\* normalizeAirtel: os.Open(src), the header loop on what the reader got,
\* and os.Create(filteredPath)
OpenAndCreate ==
  /\ \E r \in Runs :
       /\ conc.run[r].pc = "open"
       /\ \E input \in { conc.fs[uploadPath(conc.run[r].name)] } :
            IF concHeader(input) = 0
            THEN conc' = [conc EXCEPT !.run[r].pc = "err", !.run[r].errMsg = "no header"]
            ELSE IF concCdr(input) = ""
            THEN conc' = [conc EXCEPT !.run[r].pc = "err",
                                      !.run[r].errMsg = "cannot extract CDR"]
            ELSE conc' = [fs  |-> fsCreate(conc.fs, reportPath(concCdr(input))),
                          run |-> [conc.run EXCEPT ![r].pc = "flush", ![r].input = input,
                                                   ![r].cdr = concCdr(input)]]
  /\ UNCHANGED << variant, scen, src, file, pos, open, nf, lastErr, pc, cdr, header, idx,
                  created, out, agg, cells, tables, errMsg, runNo, prev, nData, nDropped >>

\* the row loop and fw.Flush(), then os.Create(summaryPath)
FlushReport ==
  /\ \E r \in Runs :
       /\ conc.run[r].pc = "flush"
       /\ conc' = [fs  |-> fsCreate(fsWrite(conc.fs, reportPath(conc.run[r].cdr),
                                            reportOf(conc.run[r].cdr,
                                                     concRows(conc.run[r].input))),
                                    summaryPath(conc.run[r].cdr)),
                   run |-> SetRun(r, "pc", "summary")]
  /\ UNCHANGED << variant, scen, src, file, pos, open, nf, lastErr, pc, cdr, header, idx,
                  created, out, agg, cells, tables, errMsg, runNo, prev, nData, nDropped >>

\* sw.Flush() and the response with the two paths
FlushSummary ==
  /\ \E r \in Runs :
       /\ conc.run[r].pc = "summary"
       /\ conc' = [fs  |-> fsWrite(conc.fs, summaryPath(conc.run[r].cdr),
                                   summaryOf(conc.run[r].cdr, concRows(conc.run[r].input))),
                   run |-> SetRun(r, "pc", "done")]
  /\ UNCHANGED << variant, scen, src, file, pos, open, nf, lastErr, pc, cdr, header, idx,
                  created, out, agg, cells, tables, errMsg, runNo, prev, nData, nDropped >>

NextConc == SaveCreate \/ SaveCopy \/ OpenAndCreate \/ FlushReport \/ FlushSummary

SpecConc == InitConc /\ [][NextConc]_vars

(* ------------------------------ properties ----------------------------- *)
\* canonical columns that no header of the vocabulary has a source column
\* for, and that no lookup or fixed assignment fills
UnmappedCols == {"IMEI", "IMSI", "Roaming", "CallForward", "IMEI Manufacturer"}

EosBeforeHeader == pc = "err" /\ header = << >> /\ lastErr = "eof"

\* C2 as stated: the end of the stream ahead of the header ends the run with
\* the normaliser's "no header" error, no row and no output file.
C2_NoHeaderError ==
  EosBeforeHeader => errMsg = NoHeaderMsg(variant) /\ out = << >> /\ ~created

\* C2, amended: the end of the stream ahead of the header ends the run with a
\* fatal error, no row and no output file; the error is the normaliser's
\* "no header" error, except that processVI reports "empty file" when the
\* stream holds no record at all.
C2_NoHeaderOrEmptyFile ==
  EosBeforeHeader =>
    /\ errMsg = (IF variant = "V2" /\ file = << >> THEN "empty file"
                 ELSE NoHeaderMsg(variant))
    /\ out = << >> /\ ~created

\* a stream of banner and junk lines that ends without a header
C2_Witness == EosBeforeHeader /\ Len(file) >= 2 /\ errMsg = NoHeaderMsg(variant)

\* C3: no run creates an output or emits a row while the identifier is empty.
C3_NoEmptyCdr == (created \/ out # << >>) => cdr # ""

\* the header has a column called name
HasCol(h, name) == \E i \in 1..Len(h) : h[i] = name

\* C4: no row is emitted from a header that lacks the first or the last
\* cell-identifier column.
C4_CellColumnsMandatory ==
  out # << >> =>
    HasCol(header, FirstCellName(variant)) /\ HasCol(header, LastCellName(variant))

\* C5: a run that ends in an error has created no output and emitted no row.
C5_NoAbortAfterEmission == pc \in {"err", "panic"} => ~created /\ out = << >>

\* the Read of this step returned a data row that is malformed: its quoting
\* is broken, or its field count is not the header's
ReadsMalformedRow ==
  /\ pc \in {"first", "rows"} /\ pos' = pos + 1
  /\ \/ lastErr' \in {"parse", "fieldcount"}
     \/ Len(file'[pos'].f) # Len(header)

\* C6: the step that reads a malformed data row leaves the run running and
\* leaves the emitted rows and the aggregates as they were.
C6_MalformedRowDropped ==
  [][ReadsMalformedRow => pc' \notin {"err", "panic"} /\ out' = out /\ agg' = agg]_vars

\* the position of the header row in the stream
HeaderPos == CHOOSE k \in 1..Len(file) :
               file[k].f = header /\ \A j \in 1..(k - 1) : file[j].f # header

\* (1) the banner match on the lines ahead of the header
BannerId ==
  LET W == { k \in 1..(HeaderPos - 1) : extractCdr(variant, file[k].f) # "" }
  IN IF W = {} THEN ""
     ELSE extractCdr(variant, file[CHOOSE k \in W : \A j \in W : k <= j].f)

\* (2) the digits of the identifier column of the first data row
ColumnId ==
  IF Len(file) > HeaderPos
  THEN LET rec == file[HeaderPos + 1].f
           W == { i \in 1..Len(header) : header[i] = IdColName(variant) /\ i <= Len(rec) }
       IN IF W = {} THEN "" ELSE digits(rec[CHOOSE i \in W : TRUE])
  ELSE ""

\* the chain: banner, else identifier column, else (3) the filename's digits
ChainId ==
  IF BannerId # "" THEN BannerId
  ELSE IF ColumnId # "" THEN ColumnId
  ELSE digits(src)

\* the errors of an unresolved identifier
IdErrors == {"cannot extract CDR", "could not extract CDR number", "CDR not found",
             "cannot determine CDR", "cannot find CDR"}

\* C7: once the identifier stage is over, the identifier is the first
\* success of the chain banner, identifier column of the first data row,
\* digits of the filename (and the run fails for want of an identifier only
\* when the whole chain is empty).
C7_FallbackChain ==
  (header # << >> /\ (pc \in {"rows", "done"} \/ (pc = "err" /\ errMsg \in IdErrors)))
    => cdr = ChainId

\* C8: the second run over an upload returns the rows and the tables of the
\* first run, in the same order.
C8_Idempotent ==
  (runNo = 2 /\ pc = "done") => out = prev.out /\ tables = prev.tables

\* C9: the per-party call counters sum to the number of rows emitted so far,
\* and the "Total" line of normVI's max-calls report carries that number.
C9_OneUpdatePerRow ==
  /\ variant \in AggVariants => SumTotal(agg, DOMAIN agg) = Len(out)
  /\ (variant = "V1" /\ pc = "done") => tables.totalLine[3] = Len(out)

\* normVI has finished a run of three rows of two parties
C9_Witness ==
  /\ variant = "V1" /\ pc = "done" /\ Len(out) = 3 /\ Cardinality(DOMAIN agg) = 2
  /\ tables.totalLine[3] = 3

\* the parsable durations, and the number, of the first n emitted rows of party k
RECURSIVE PartyDur(_, _)
PartyDur(k, n) ==
  IF n = 0 THEN 0
  ELSE PartyDur(k, n - 1)
       + (IF bKey(variant, out[n]) = k /\ ParseFloatOk(GetF(out[n], variant, "Duration"))
          THEN ParseFloatVal(GetF(out[n], variant, "Duration")) ELSE 0)

PartyCalls(k) == Cardinality({ n \in 1..Len(out) : bKey(variant, out[n]) = k })

\* C10: each party's duration is the sum of the parsable durations of its
\* emitted rows, and its call counter counts all its rows, those with an
\* unparsable duration too.
C10_DurationSum ==
  variant \in AggVariants =>
    /\ DOMAIN agg = { bKey(variant, out[n]) : n \in 1..Len(out) }
    /\ \A k \in DOMAIN agg :
         agg[k].Dur = PartyDur(k, Len(out)) /\ agg[k].Total = PartyCalls(k)

\* one party, durations 10, 20, "bad", 5, 0: five calls, 35 seconds
C10_Witness ==
  /\ scen = "dur" /\ pc = "done" /\ Len(out) = 5
  /\ [n \in 1..5 |-> GetF(out[n], variant, "Duration")] = << "10", "20", "bad", "5", "0" >>
  /\ DOMAIN agg = { Trim(Party1) }
  /\ agg[Trim(Party1)].Dur = 35 /\ agg[Trim(Party1)].Total = 5

(* ---------------------- aggregates and ranked tables ------------------- *)
\* the variants whose party aggregates have direction counters and a span
SpanVariants == {"A1", "B1", "B2", "V1", "V2"}

\* the "date time" values of the emitted rows counted for cell k, and of
\* those counted for party k
CellTs(k) ==
  { rowTs(variant, out[i])
      : i \in { j \in 1..Len(out) :
                  cellCounted(variant, out[j]) /\ cellKeyOf(variant, out[j]) = k } }
PartyTs(k) ==
  { rowTs(variant, out[i]) : i \in { j \in 1..Len(out) : bKey(variant, out[j]) = k } }

\* x is the least / the greatest value of S in the order of the strings
IsMin(x, S) == x \in S /\ \A y \in S : ~dtLess(y, x)
IsMax(x, S) == x \in S /\ \A y \in S : ~dtLess(x, y)

\* C11: for every cell and every party the recorded earliest "date time" is
\* the minimum and the recorded latest one the maximum of the values of all
\* rows seen for that key, in whatever order the rows arrived.
C11_SpanIsMinMax ==
  /\ \A k \in DOMAIN cells :
       IsMin(cells[k].First, CellTs(k)) /\ IsMax(cells[k].Last, CellTs(k))
  /\ variant \in SpanVariants =>
       \A k \in DOMAIN agg :
         IsMin(agg[k].First, PartyTs(k)) /\ IsMax(agg[k].Last, PartyTs(k))

\* the sequence of records t is non-increasing in field f
NonIncreasing(t, f) == \A i \in 1..(Len(t) - 1) : t[i][f] >= t[i + 1][f]

\* C12: in the tables a run has written, the party table ranked by call
\* count is non-increasing in the call count over every adjacent pair of
\* rows, the party table ranked by total duration is non-increasing in the
\* duration, and the cell table is non-increasing in the call count.
C12_RankedTablesMonotone ==
  pc = "done" =>
    /\ NonIncreasing(tables.maxCalls, "calls")
    /\ NonIncreasing(tables.maxDur, "dur")
    /\ NonIncreasing(tables.maxStay, "calls")

\* C13: the order of each of the two party rankings is a function of the
\* aggregate contents alone (ties on the ranking value are broken by the
\* party key): two runs that end with the same aggregates write the same
\* table ranked by call count and the same table ranked by total duration.
C13_RankingDeterminedByAggregates ==
  (runNo = 2 /\ pc = "done" /\ agg = prev.agg) =>
    /\ tables.maxCalls = prev.tables.maxCalls
    /\ tables.maxDur = prev.tables.maxDur

(* ------------------------------ look-ups ------------------------------- *)
\* every row read after the header has been emitted: out[i] is the row made
\* from line i of the data
AllEmitted == Len(out) = nData /\ nDropped = 0 /\ Len(file) >= 2 + Len(out)

\* the first and the last cell identifier as line i of the data spells them
RawFirst(i) == pick(file[i + 2].f, colIdx(header, FirstCellName(variant)))
RawLast(i) == pick(file[i + 2].f, colIdx(header, LastCellName(variant)))

\* the fields a hit on the first cell identifier fills
EnrichCols(v) ==
  IF v \in {"A2", "B2", "V2"} THEN {"First Cell ID Address", "Lat", "Long", "Azimuth"}
  ELSE {"First Cell ID Address", "Sub City (First CellID)", "Main City(First CellID)",
        "Lat-Long-Azimuth (First CellID)"}

\* x is the separator-free spelling of y, which has separators
SeparatorFreeOf(x, y) == x # "" /\ x # y /\ digits(y) = x

\* the cell table holds the identifier x in raw or in digits-only form
InCellTable(x) == \E r \in CellRows : r.id = x \/ digits(r.id) = x

RawLrn(i) == pick(file[i + 2].f, colIdx(header, LrnColName(variant)))

\* no spelling of the identifier x is in the cell table; the digits of x are
\* not in the routing table
CellMiss(x) == \A r \in CellRows : digits(x) # digits(r.id)
LrnMiss(x) == \A r \in LrnRows : digits(x) # r.lrn

\* the fields the routing look-up fills
LrnCols(v) ==
  IF v \in {"A2", "B2", "V2"} THEN {"B Party Provider", "B Party Circle"}
  ELSE {"B Party Provider", "B Party Circle", "B Party Operator"}

\* the errors of a run whose upload has a banner and a header: those of the
\* writer, and that of an upload without a data row
OutputErrors == {"write error", "save error", "no data rows", "header present but no data"}

lookupKey(v, x) ==
  CASE v \in {"A1", "J1"} -> digits(x)
    [] v \in {"B1", "V1"} -> x
    [] OTHER -> stripHyphen(x)

\* what the variant's look-up returns for the first and for the last cell
\* identifier of line i of the data
FirstInfo(i) == findCell(variant, lookupKey(variant, RawFirst(i)))
LastInfo(i) == findCell(variant, lookupKey(variant, RawLast(i)))

\* the row has the full enrichment of the table row r
FullyEnriched(v, row, r) ==
  /\ GetF(row, v, "First Cell ID Address") = r.addr
  /\ IF v \in {"A2", "B2", "V2"}
     THEN /\ GetF(row, v, "Lat") = r.lat /\ GetF(row, v, "Long") = r.lon
          /\ GetF(row, v, "Azimuth") = r.az
     ELSE /\ GetF(row, v, "Sub City (First CellID)") = r.sub
          /\ GetF(row, v, "Main City(First CellID)") = r.main
          /\ GetF(row, v, "Lat-Long-Azimuth (First CellID)") = r.lla

\* C16: in every variant, a row whose first cell identifier the look-up
\* finds carries the full enrichment of that cell (address, areas,
\* position), and a row whose last cell identifier the look-up finds carries
\* that cell's address in Last Cell ID Address, the fields of the first cell
\* staying those of the first cell.
C16_FirstFullLastAddress ==
  scen = "agg" =>
    \A i \in 1..Len(out) :
      /\ FirstInfo(i) # NoCell => FullyEnriched(variant, out[i], FirstInfo(i))
      /\ LastInfo(i) # NoCell =>
           GetF(out[i], variant, "Last Cell ID Address") = LastInfo(i).addr

(* --------------------------- concurrent requests ----------------------- *)
\* request r returns in this step
Returns(r) == conc.run[r].pc \notin {"done", "err"} /\ conc'.run[r].pc \in {"done", "err"}

\* C17: of two requests that run at the same time, one for each of two
\* different uploaded files, each ends as it would have ended alone,
\* whatever the interleaving: when it returns it has succeeded, and the
\* report and the summary at the paths it returns are those of its own upload.
C17_RunsIndependent ==
  [][ (scen = "conc" /\ conc.run[1].name # conc.run[2].name) =>
        \A r \in Runs :
          Returns(r) =>
            /\ conc'.run[r].pc = "done"
            /\ conc'.fs[reportPath(concCdr(conc.run[r].body))]
                 = reportOf(concCdr(conc.run[r].body), concRows(conc.run[r].body))
            /\ conc'.fs[summaryPath(concCdr(conc.run[r].body))]
                 = summaryOf(concCdr(conc.run[r].body), concRows(conc.run[r].body)) ]_vars


\* C18: in every variant that keeps direction counters, a party's total is
\* the sum of its outbound calls, inbound calls, outbound SMS, inbound SMS
\* and "other" counters: each update adds one to the total and to exactly
\* one of the five.
C18_TotalIsSumOfCounters ==
  variant \in SpanVariants =>
    \A k \in DOMAIN agg :
      agg[k].Total = agg[k].Out + agg[k].In + agg[k].OutS + agg[k].InS + agg[k].Other


\* the address, position and roaming value of a cell aggregate
Captured(e) == << e.Addr, e.Lat, e.Lon, e.Az, e.Roam >>

\* C19: the address, latitude, longitude, azimuth and roaming value of a
\* cell aggregate are those of the first row counted for the cell: no later
\* row of the same cell changes them.
C19_CellCaptureOnce ==
  [][ \A k \in DOMAIN cells :
        k \in DOMAIN cells' => Captured(cells'[k]) = Captured(cells[k]) ]_vars


\* the dates of the vocabulary that time.Parse("2006-01-02", s) accepts
IsDate(s) == s \in {"2024-01-01", "2024-01-02", "2024-01-03"}

\* C20: in every row of the cell table that has a day-span column, the
\* day-span is the number of calendar days from the row's earliest date to
\* its latest date, both included (1 for the same day), and it is the
\* sentinel when one of the two dates does not parse.
C20_DaySpanInclusiveOrSentinel ==
  \A i \in 1..Len(tables.maxStay) :
    tables.maxStay[i].days.shown =>
      IF IsDate(tables.maxStay[i].first.d) /\ IsDate(tables.maxStay[i].last.d)
      THEN /\ ~tables.maxStay[i].days.sentinel
           /\ tables.maxStay[i].days.n
                = dayNo(tables.maxStay[i].last.d) - dayNo(tables.maxStay[i].first.d) + 1
      ELSE tables.maxStay[i].days.sentinel

(* ------------------------- correspondent party ------------------------- *)
\* the record that emitted row i was made from, when no record was skipped
DataRec(i) == file[Len(file) - Len(out) + i].f

\* the calling and the called number of that record, without quotes and
\* blanks
CallingOf(i) == Trim(pick(DataRec(i), colIdx(header, "calling party telephone number")))
CalledOf(i) == Trim(pick(DataRec(i), colIdx(header, "called party telephone number")))

\* the trailing digits of x are those of the run's identifier
MatchesCdr(x) == digits(x) = digits(cdr)

\* the correspondent of a row with calling number a and called number b
Correspondent(a, b) ==
  IF a # "" /\ b # ""
  THEN (IF MatchesCdr(a) /\ ~MatchesCdr(b) THEN b
        ELSE IF MatchesCdr(b) /\ ~MatchesCdr(a) THEN a
        ELSE b)
  ELSE IF a # "" THEN a ELSE b

\* C21: the B Party of a row made from a calling and a called number is, when
\* both are present, the one whose trailing digits are not the run's
\* identifier, and the called number when both or neither are; when one of
\* them is empty it is the other.
C21_CorrespondentParty ==
  (scen = "party" /\ nDropped = 0 /\ Len(out) = nData) =>
    \A i \in 1..Len(out) :
      GetF(out[i], variant, "B Party") = Correspondent(CallingOf(i), CalledOf(i))

(* ------------------------------ call types ----------------------------- *)
\* the variants whose row normaliser has a switch on the call type
CanonVariants == {"A1", "A3", "J1"}

\* the call type as line i of the data spells it, without quotes and blanks
RawCallType(i) == Trim(pick(file[i + 2].f, colIdx(header, "call type")))

\* the canonical value of a code
CanonCallType(x) ==
  IF x \in {"IN", "A_IN"} THEN "CALL_IN"
  ELSE IF x \in {"OUT", "A_OUT"} THEN "CALL_OUT"
  ELSE x

\* C22: the Call Type of an emitted row is CALL_IN for the source codes IN
\* and A_IN, CALL_OUT for OUT and A_OUT, and for every other code the source
\* text itself, trimmed of quotes and blanks and otherwise unchanged.
C22_CallTypeCanon ==
  (scen = "agg" /\ variant \in CanonVariants /\ AllEmitted) =>
    \A i \in 1..Len(out) :
      GetF(out[i], variant, "Call Type") = CanonCallType(RawCallType(i))

(* --------------------- two columns for one field ----------------------- *)
\* the columns of the header that the header tables resolve to the Date
DateSources == { c \in 1..Len(header) : norm(header[c]) \in {"date", "call date"} }

\* C23: when the header has two columns that resolve to the Date, the Date
\* of every emitted row comes from one and the same of them.
C23_OneSourceColumn ==
  (scen = "dup" /\ nDropped = 0 /\ Len(out) = nData /\ out # << >>) =>
    \E c \in DateSources :
      \A i \in 1..Len(out) : GetF(out[i], variant, "Date") = Trim(DataRec(i)[c])

(* ------------------------------ date formats --------------------------- *)
\* the calendar day a date of the vocabulary names, as a day number
CalendarDay(d) ==
  CASE d = "31/12/2023" -> 738884 [] d \in {"01/01/2024", "2024-01-01"} -> 738885
    [] d = "2024-01-02" -> 738886 [] d = "2024-01-03" -> 738887 [] OTHER -> 0

\* the call of x is before that of y
Earlier(x, y) ==
  \/ CalendarDay(x.d) < CalendarDay(y.d)
  \/ CalendarDay(x.d) = CalendarDay(y.d) /\ timeRank(x.t) < timeRank(y.t)

\* C24: the value a party's span records as earliest is the date and time
\* of its chronologically earliest emitted row, and the value recorded as
\* latest that of its chronologically latest row, in whatever format the
\* upload writes its dates.
C24_SpanIsChronological ==
  (scen = "fmt" /\ variant \in SpanVariants) =>
    \A k \in DOMAIN agg :
      \A x \in PartyTs(k) : ~Earlier(x, agg[k].First) /\ ~Earlier(agg[k].Last, x)

(* ------------------------- shape of the identifier --------------------- *)
\* the number of characters of a string of digits of the vocabulary (0: the
\* string is empty or holds a character that is no digit)
DigitCount(s) ==
  CASE s \in {CdrNum, Party1, Party2} -> 10 [] s = "77" -> 2 [] s = "7" -> 1 [] OTHER -> 0

\* C25: the CdrNo of every emitted row is the run's identifier, a string of
\* 8 to 15 decimal digits.
C25_IdentifierShape ==
  \A i \in 1..Len(out) :
    /\ GetF(out[i], variant, "CdrNo") = cdr
    /\ DigitCount(cdr) >= 8 /\ DigitCount(cdr) <= 15

(* ----------------------------- header search -------------------------- *)
\* rec bears the header signature of the variant
HasSignature(v, rec) == IsHeader(v, rec, ScanIdx(v, rec, InitIdx(v)))

\* C26: once a record with the header signature has been read (a line the csv
\* reader could split into fields), the header has been found, whatever the
\* field counts of the preamble rows before it.
C26_HeaderFound ==
  \A i \in 1..pos :
    (~file[i].perr /\ HasSignature(variant, file[i].f)) => header # << >>

(* ---------------------------- distinct sets --------------------------- *)
\* the emitted rows of party k
PartyRowsOf(k) == { i \in 1..Len(out) : bKey(variant, out[i]) = k }

\* the non-empty first and last cell identifiers of the rows of party k,
\* written without hyphens
TouchedCells(k) ==
  { stripHyphen(GetF(out[i], variant, c))
      : i \in PartyRowsOf(k), c \in {"First Cell ID", "Last Cell ID"} } \ {""}

\* C27: for every party the distinct days are the dates of its emitted
\* rows, the distinct cells are the non-empty first and last cell
\* identifiers of those rows (compared without hyphens), the device sets
\* are the non-empty IMEI and IMSI values, and "" is never a cell.
C27_DistinctSets ==
  (scen = "sets") =>
    \A k \in DOMAIN agg :
      /\ agg[k].Days = { GetF(out[i], variant, "Date") : i \in PartyRowsOf(k) }
      /\ { stripHyphen(c) : c \in agg[k].Cells } = TouchedCells(k)
      /\ "" \notin agg[k].Cells
      /\ agg[k].Imeis = { GetF(out[i], variant, "IMEI") : i \in PartyRowsOf(k) } \ {""}
      /\ agg[k].Imsis = { GetF(out[i], variant, "IMSI") : i \in PartyRowsOf(k) } \ {""}

(* ------------------------------ termination --------------------------- *)
\* the run has returned: with its reports, with an error, or by a panic
Returned == pc \in {"done", "err", "panic"}

\* C28: every run returns, also on a medium whose Read keeps returning an
\* error that is not io.EOF.
C28_RunTerminates == <>Returned

(* ------------------------------ file order ---------------------------- *)
\* line i is a well-formed, non-empty data row: the csv reader gave no
\* error for it and it is not the footer the Airtel exports end with
WellFormed(i) ==
  /\ ~file[i].perr
  /\ Len(file[i].f) = Len(header)
  /\ file[i].f # FooterLine(variant).f

\* row is what the row normaliser makes of line i
DerivedFrom(row, i) ==
  /\ Len(file[i].f) > 0
  /\ ~Panics(variant, file[i].f, header, idx, cdr)
  /\ row \in Rows(variant, file[i].f, header, idx, cdr)

\* the emitted rows from the k-th on are derived, in order and one each,
\* from lines among the i-th and later ones; no well-formed line is left out
RECURSIVE InFileOrder(_, _)
InFileOrder(k, i) ==
  IF i > pos THEN k > Len(out)
  ELSE \/ k <= Len(out) /\ DerivedFrom(out[k], i) /\ InFileOrder(k + 1, i + 1)
       \/ ~(WellFormed(i) /\ pc \in {"rows", "done"}) /\ InFileOrder(k, i + 1)

\* C29: the emitted rows follow file order with no loss and no duplication:
\* each is derived from a data row of its own, later rows from later data
\* rows, and every well-formed data row of a run that has not failed has
\* its emitted row, the read-ahead first data row included.
C29_FileOrder ==
  (scen = "order" /\ header # << >>) => InFileOrder(1, HeaderPos + 1)

\* a run that read the first data row ahead to find the identifier, dropped
\* a malformed row and emitted the rows before and after it
C29_Witness ==
  /\ scen = "order" /\ variant \in {"J1", "B1"} /\ pc = "done"
  /\ file[1].f = header
  /\ nDropped >= 1 /\ Len(out) = 2 /\ out[1] # out[2]

(* --------------------------- look-up precedence ----------------------- *)
\* the trimmed value of source column name in the data row of emitted row i
SrcCell(i, name) == Trim(pick(DataRec(i), colIdx(header, name)))

\* the rows of the routing table and of the cell table that emitted row i hits
LrnHits(i) == { r \in LrnRows : r.lrn = digits(GetF(out[i], variant, "LRN")) }
CellHits(i) ==
  { r \in CellRows : SrcCell(i, "first cell global id") \in {r.id, stripHyphen(r.id)}
                     \/ digits(SrcCell(i, "first cell global id")) = r.id }

====
